---- MODULE Spec2Model ----
(***************************************************************************)
(* movie-viewer: the chapter-list parser and the chapter table of          *)
(* ChapterTableManager (movie_viewer/core/chapter_manager.py), the time    *)
(* value TimePosition (movie_viewer/core/models.py), the chapter handlers  *)
(* of the main window (movie_viewer/app.py), the seeks of VideoController  *)
(* (movie_viewer/core/video_controller.py) and the platform and theme      *)
(* utilities (movie_viewer/utils).                                         *)
(*                                                                         *)
(* A Python str is modelled as a sequence of one-character strings, so     *)
(* that slicing, strip(), split() and the regular expressions are computed *)
(* character by character as the code computes them.  Positions are        *)
(* 1-based: a match [start, end) of Python is the record                   *)
(* [start |-> s0 + 1, end |-> e0 + 1], so line[m.end():n.start()] is       *)
(* SubSeq(line, m.end, n.start - 1).                                       *)
(*                                                                         *)
(* A Python float is an IEEE binary64 value, modelled exactly as an odd    *)
(* mantissa and a binary exponent over naturals of arbitrary size, with    *)
(* every operation rounded to 53 bits, nearest-even, as the code's         *)
(* arithmetic rounds it.                                                   *)
(***************************************************************************)
EXTENDS Integers, Sequences, FiniteSets, TLC

VARIABLES
    text,        \* the argument of _parse_youtube_chapters (clipboard text)
    pc,          \* "ready" before the call, "done" after it
    mode,        \* which branch of the parser ran: "none", "separator", "line"
    chapters,    \* the list the parser returned: a sequence of <<time, title>>
    raised,      \* TRUE iff the call ended in an exception
    tokens,      \* the time tokens the call matched, in the order it met them
    time_str,    \* the argument of a direct _normalize_time or from_string call
    normalized,  \* the value _normalize_time returned
    ms_arg,      \* the argument ms of TimePosition.from_milliseconds, -1 if none
    position,    \* the TimePosition a constructor returned, or None
    milliseconds, \* the value to_milliseconds returned, -1 before the call
    include_ms,  \* the argument of to_string
    formatted,   \* the str to_string returned
    reparsed,    \* from_string(formatted)
    rows,        \* the rows of the chapter table: a sequence of <<time, title>>
    selected,    \* table_view.selectedIndexes(): the rows of the selected cells
    player_position, \* the position last set on the media player, in ms
    file,        \* the chapter file save_to_file writes
    file_path,   \* the file the last load or save was given
    load_error,  \* the exception load_from_file raised to its caller, or "none"
    calls,       \* the number of handlers run so far
    rows_before, \* rows when the last handler started
    position_before, \* player_position when the last handler started
    saved_rows,  \* rows when the chapter file was written, None if it never was
    file_name,   \* VideoPlayerApp.file_name: the media file opened, or None
    reply,       \* the answer to the overwrite question of the last save
    deleted_rows, \* the list delete_selected_rows returned
    parsed,      \* the direct parser calls so far: text, result, rows then
    file_before, \* file when the last save_chapter_file started
    frame_rate,  \* VideoController.frame_rate, a float
    seek_error,  \* the exception the last seek raised, or "none"
    returned,    \* the position the last seek returned, -1 if none
    offset,      \* the argument of the last seek_by_milliseconds call
    system,      \* platform.system() of the machine
    dark_setting, \* the dark-mode setting of the desktop
    callbacks,   \* ThemeDetector._theme_changed_callbacks
    invoked,     \* the callbacks the last check_theme_change ran
    detected,    \* what the last check_theme_change detected, or None
    last_dark,   \* what the check before the last one detected, or None
    extensions,  \* the list get_video_extensions returned
    test_error   \* the exception test_file_extensions ended in, or "none"

\* the state of the TimePosition calls
timeVars == <<ms_arg, position, milliseconds, include_ms, formatted, reparsed>>

\* the state of the chapter table, the player position and the chapter file
tableVars == <<rows, selected, player_position, file, file_path, load_error,
               calls, rows_before, position_before, saved_rows>>

\* the state of the main window beyond the table
appVars == <<file_name, reply, deleted_rows, parsed, file_before>>

\* the state of VideoController and of the last seek
videoVars == <<frame_rate, seek_error, returned, offset>>

\* the state of ThemeDetector and PlatformUtils
utilVars == <<system, dark_setting, callbacks, invoked, detected, last_dark,
              extensions, test_error>>

otherVars == <<appVars, videoVars, utilVars>>

vars == <<text, pc, mode, chapters, raised, tokens, time_str, normalized,
          ms_arg, position, milliseconds, include_ms, formatted, reparsed,
          rows, selected, player_position, file, file_path, load_error,
          calls, rows_before, position_before, saved_rows,
          file_name, reply, deleted_rows, parsed, file_before,
          frame_rate, seek_error, returned, offset,
          system, dark_setting, callbacks, invoked, detected, last_dark,
          extensions, test_error>>

\* Python's None
None == [none |-> TRUE]

\* no TimePosition call has been made
TimeIdle ==
    /\ ms_arg = -1
    /\ position = None
    /\ milliseconds = -1
    /\ include_ms = TRUE
    /\ formatted = <<>>
    /\ reparsed = None

\* no file on disk
NoFile == [kind |-> "absent"]

\* the table, the player and the chapter file after construction
TableIdle ==
    /\ rows = <<>>
    /\ selected = <<>>
    /\ player_position = 0
    /\ file = NoFile
    /\ file_path = ""
    /\ load_error = "none"
    /\ calls = 0
    /\ rows_before = <<>>
    /\ position_before = 0
    /\ saved_rows = None

\* self.frame_rate = 25.0 of VideoController.__init__: 25 * 2^0
DefaultFrameRate == [m |-> <<25>>, e |-> 0]

\* the main window, the video controller and the theme detector after
\* construction, on a machine whose platform is not looked at
OtherIdle ==
    /\ file_name = None
    /\ reply = "none"
    /\ deleted_rows = <<>>
    /\ parsed = <<>>
    /\ file_before = NoFile
    /\ frame_rate = DefaultFrameRate
    /\ seek_error = "none"
    /\ returned = -1
    /\ offset = 0
    /\ system = <<"L", "i", "n", "u", "x">>
    /\ dark_setting = FALSE
    /\ callbacks = <<>>
    /\ invoked = <<>>
    /\ detected = None
    /\ last_dark = None
    /\ extensions = <<>>
    /\ test_error = "none"

----------------------------------------------------------------------------
(* Characters and the str helpers of Python the parser relies on.          *)

Digits == <<"0", "1", "2", "3", "4", "5", "6", "7", "8", "9">>

DigitSet == {Digits[i] : i \in 1..Len(Digits)}

DigitValue(c) == (CHOOSE i \in 1..Len(Digits) : Digits[i] = c) - 1

\* str.isspace() / \s, restricted to the whitespace the model's texts use
IsSpace(c) == c \in {" ", "\n", "\t"}

MinOf(S) == CHOOSE i \in S : \A j \in S : i <= j

MaxOf(S) == CHOOSE i \in S : \A j \in S : i >= j

\* str.strip(): drop the leading and the trailing whitespace run
StrStrip(s) ==
    LET keep == {i \in 1..Len(s) : ~IsSpace(s[i])}
    IN  IF keep = {} THEN <<>> ELSE SubSeq(s, MinOf(keep), MaxOf(keep))

\* str.split(sep) for a one-character sep: always at least one piece
StrSplit(s, sep) ==
    LET cuts == {i \in 1..Len(s) : s[i] = sep}
        n == Cardinality(cuts)
        cut(k) == IF k = 0 THEN 0
                  ELSE IF k = n + 1 THEN Len(s) + 1
                  ELSE CHOOSE i \in cuts : Cardinality({j \in cuts : j < i}) = k - 1
    IN  [k \in 1..(n + 1) |-> SubSeq(s, cut(k - 1) + 1, cut(k) - 1)]

\* the slice s[:n]: no more than the characters there are
StrPrefix(s, n) == SubSeq(s, 1, IF Len(s) < n THEN Len(s) ELSE n)

\* the padding left out
StrLjustNone(s, width, fill) == s

\* str.ljust(width, fill)
StrLjust(s, width, fill) ==
    IF Len(s) >= width THEN s ELSE s \o [k \in 1..(width - Len(s)) |-> fill]

\* the exception value of a failed call
ValueError == <<"ValueError">>

\* int(s): the value of a non-empty run of decimal digits, -1 for the
\* ValueError int() raises on an empty field or on a non-digit character
IntOf(s) ==
    LET v[i \in 0..Len(s)] == IF i = 0 THEN 0 ELSE 10 * v[i - 1] + DigitValue(s[i])
    IN  IF s = <<>> \/ \E i \in 1..Len(s) : s[i] \notin DigitSet THEN -1 ELSE v[Len(s)]

\* f"{n}": the decimal digits of a natural number
RECURSIVE FormatD(_)
FormatD(n) ==
    IF n < 10 THEN <<Digits[n + 1]>>
    ELSE FormatD(n \div 10) \o <<Digits[(n % 10) + 1]>>

FormatWidth == 2

\* f"{n:02d}": at least two digits, zero-padded on the left
Format02d(n) ==
    LET d == FormatD(n)
    IN  IF Len(d) < FormatWidth THEN [k \in 1..(FormatWidth - Len(d)) |-> "0"] \o d ELSE d

----------------------------------------------------------------------------
(* The time pattern                                                        *)
(*   (\d{1,2}:\d{2}:\d{2}\.\d{3}|\d{1,2}:\d{2}\.\d{3}|                     *)
(*    \d{1,2}:\d{2}:\d{2}|\d{1,2}:\d{2})                                   *)
(* as the regex engine runs it: the alternatives are tried left to right   *)
(* and, inside one alternative, the greedy \d{1,2} tries two digits before *)
(* one.  "\\d" stands for the digit class, any other element is a literal. *)

\* the quantifier written \d{0,2}: the leading digits may be missing
NoHourDigit == 1 - 1

MinHourDigits == 1

MaxHourDigits == 2

\* the alternatives listed shortest first
TimePatternShortestFirst ==
    << <<":", "\\d", "\\d">>,
       <<":", "\\d", "\\d", ":", "\\d", "\\d">>,
       <<":", "\\d", "\\d", ".", "\\d", "\\d", "\\d">>,
       <<":", "\\d", "\\d", ":", "\\d", "\\d", ".", "\\d", "\\d", "\\d">> >>

\* what follows the leading \d{1,2} in each of the four alternatives
TimePattern ==
    << <<":", "\\d", "\\d", ":", "\\d", "\\d", ".", "\\d", "\\d", "\\d">>,
       <<":", "\\d", "\\d", ".", "\\d", "\\d", "\\d">>,
       <<":", "\\d", "\\d", ":", "\\d", "\\d">>,
       <<":", "\\d", "\\d">> >>

MatchesAt(line, pos, pat) ==
    /\ pos + Len(pat) - 1 <= Len(line)
    /\ \A k \in 1..Len(pat) :
          IF pat[k] = "\\d" THEN line[pos + k - 1] \in DigitSet
          ELSE line[pos + k - 1] = pat[k]

\* the end (exclusive) of the match the engine reports at pos, 0 if none
MatchEnd(line, pos) ==
    LET tries == {<<a, n>> : a \in 1..Len(TimePattern), n \in MinHourDigits..MaxHourDigits}
        ok == {t \in tries : MatchesAt(line, pos, [k \in 1..t[2] |-> "\\d"] \o TimePattern[t[1]])}
        first == CHOOSE t \in ok : \A u \in ok : t[1] < u[1] \/ (t[1] = u[1] /\ t[2] >= u[2])
    IN  IF ok = {} THEN 0 ELSE pos + first[2] + Len(TimePattern[first[1]])

\* time_pattern.finditer(line): the non-overlapping matches, left to right
RECURSIVE FindIterFrom(_, _)
FindIterFrom(line, pos) ==
    IF pos > Len(line) THEN <<>>
    ELSE LET e == MatchEnd(line, pos)
         IN  IF e = 0 THEN FindIterFrom(line, pos + 1)
             ELSE <<[start |-> pos, end |-> e]>> \o FindIterFrom(line, e)

FindIter(line) == FindIterFrom(line, 1)

\* match.group(1)
Group(line, m) == SubSeq(line, m.start, m.end - 1)

----------------------------------------------------------------------------
(* _normalize_time                                                         *)

DefaultMs == <<"0", "0", "0">>

MsWidth == 3

NormalizeTime(ts) ==
    LET parts == StrSplit(ts, ".")
        time_part == parts[1]
        ms_part == IF Len(parts) > 1 THEN parts[2] ELSE DefaultMs
        time_components == StrSplit(time_part, ":")
        n == Len(time_components)
        hours == IF n = 2 THEN 0 ELSE IntOf(time_components[1])
        minutes == IF n = 2 THEN IntOf(time_components[1]) ELSE IntOf(time_components[2])
        seconds == IF n = 2 THEN IntOf(time_components[2]) ELSE IntOf(time_components[3])
        ms == StrPrefix(StrLjust(ms_part, MsWidth, "0"), MsWidth)
    IN  IF n \notin {2, 3} THEN ts
        ELSE IF hours = -1 \/ minutes = -1 \/ seconds = -1 THEN ValueError
        ELSE FormatD(hours) \o <<":">> \o Format02d(minutes) \o <<":">>
             \o Format02d(seconds) \o <<".">> \o ms

----------------------------------------------------------------------------
(* _parse_youtube_chapters                                                 *)

\* lines = text.strip().split('\n')
SplitLines(t) == StrSplit(StrStrip(t), "\n")

\* the substitution with the pattern r'^[-\s]+|[-\s]+$': both ends stripped
SubSeparatorsBothEnds(title) ==
    LET keep == {i \in 1..Len(title) : ~(title[i] = "-" \/ IsSpace(title[i]))}
    IN  IF keep = {} THEN <<>> ELSE SubSeq(title, MinOf(keep), MaxOf(keep))

\* re.sub(r'^[-\s]+', '', title)
SubLeadingSeparators(title) ==
    LET keep == {i \in 1..Len(title) : ~(title[i] = "-" \/ IsSpace(title[i]))}
    IN  IF keep = {} THEN <<>> ELSE SubSeq(title, MinOf(keep), Len(title))

\* the append without its `if title:` guard
AppendAlways(acc, normalized_time, title) ==
    Append(acc, <<normalized_time, title>>)

\* chapters.insert(0, ...) in place of chapters.append(...)
InsertFirstIfTitle(acc, normalized_time, title) ==
    IF title # <<>> THEN <<<<normalized_time, title>>>> \o acc ELSE acc

\* if title: chapters.append((normalized_time, title))
AppendIfTitle(acc, normalized_time, title) ==
    IF title # <<>> THEN Append(acc, <<normalized_time, title>>) ELSE acc

\* the text from the end of match i to the start of match i+1 (or line end)
AfterText(line, matches, i) ==
    IF i + 1 <= Len(matches)
    THEN StrStrip(SubSeq(line, matches[i].end, matches[i + 1].start - 1))
    ELSE StrStrip(SubSeq(line, matches[i].end, Len(line)))

\* the text before match i taken from the line start for every match
BeforeTextFromLineStart(line, matches, i) ==
    StrStrip(SubSeq(line, 1, matches[i].start - 1))

\* the text from the end of match i-1 (or line start) to the start of match i
BeforeText(line, matches, i) ==
    IF i = 1
    THEN StrStrip(SubSeq(line, 1, matches[i].start - 1))
    ELSE StrStrip(SubSeq(line, matches[i - 1].end, matches[i].start - 1))

\* the single-line branch falling back to the text before the match
SeparatorTitleWithFallback(line, matches, i) ==
    LET before == BeforeText(line, matches, i)
        after == AfterText(line, matches, i)
    IN  SubLeadingSeparators(IF after # <<>> THEN after ELSE before)

\* the title of match i in the single-line branch
SeparatorTitle(line, matches, i) ==
    SubLeadingSeparators(AfterText(line, matches, i))

\* the title of match i in the line-by-line branch
LineTitle(line, matches, i) ==
    LET before == BeforeText(line, matches, i)
        after == AfterText(line, matches, i)
        title == IF after # <<>> THEN after ELSE before
    IN  SubLeadingSeparators(title)

\* the condition with lines = text.split('\n'), the strip() left out
UsesSeparatorModeUnstripped(t) ==
    LET lines == StrSplit(t, "\n")
    IN  Len(lines) = 1 /\ lines[1] # <<>> /\ Len(FindIter(lines[1])) > 1

\* the condition under which the single-line branch returns
UsesSeparatorMode(t) ==
    LET lines == SplitLines(t)
    IN  Len(lines) = 1 /\ lines[1] # <<>> /\ Len(FindIter(lines[1])) > 1

\* the loop over the matches of one line; a result is
\* [raised |-> an exception escaped, chapters |-> the list so far]
RECURSIVE MatchLoop(_, _, _, _, _)
MatchLoop(line, matches, i, acc, separator) ==
    IF i > Len(matches) THEN [raised |-> FALSE, chapters |-> acc]
    ELSE LET title == IF separator THEN SeparatorTitle(line, matches, i)
                      ELSE LineTitle(line, matches, i)
             normalized_time == NormalizeTime(Group(line, matches[i]))
         IN  IF normalized_time = ValueError
             THEN [raised |-> TRUE, chapters |-> acc]
             ELSE MatchLoop(line, matches, i + 1,
                            AppendIfTitle(acc, normalized_time, title), separator)

\* the single-line branch
ParseSeparatorMode(t) ==
    LET lines == SplitLines(t)
    IN  MatchLoop(lines[1], FindIter(lines[1]), 1, <<>>, TRUE)

\* the loop body keeping a line without a time as an entry without a time
LineEntriesKeepingUntimed(rawline, acc) ==
    LET line == StrStrip(rawline)
    IN  IF line = <<>> THEN [raised |-> FALSE, chapters |-> acc]
        ELSE IF FindIter(line) = <<>>
        THEN [raised |-> FALSE, chapters |-> Append(acc, <<<<>>, line>>)]
        ELSE MatchLoop(line, FindIter(line), 1, acc, FALSE)

\* the body of `for line in lines` for one line
LineEntries(rawline, acc) ==
    LET line == StrStrip(rawline)
    IN  IF line = <<>> THEN [raised |-> FALSE, chapters |-> acc]
        ELSE MatchLoop(line, FindIter(line), 1, acc, FALSE)

RECURSIVE LinesLoop(_, _, _)
LinesLoop(lines, k, acc) ==
    IF k > Len(lines) THEN [raised |-> FALSE, chapters |-> acc]
    ELSE LET r == LineEntries(lines[k], acc)
         IN  IF r.raised THEN r ELSE LinesLoop(lines, k + 1, r.chapters)

\* the line-by-line branch
ParseLineMode(t) == LinesLoop(SplitLines(t), 1, <<>>)

\* match.group(1) of every match of every line scanned, in scan order
RECURSIVE ScannedTokens(_)
ScannedTokens(lines) ==
    IF lines = <<>> THEN <<>>
    ELSE LET line == StrStrip(Head(lines))
             matches == FindIter(line)
         IN  [i \in 1..Len(matches) |-> Group(line, matches[i])]
             \o ScannedTokens(Tail(lines))

\* the list of entries kept between calls instead of made anew by each
ParseKeepingEntries(t) ==
    LET r == IF UsesSeparatorMode(t) THEN ParseSeparatorMode(t) ELSE ParseLineMode(t)
    IN  [r EXCEPT !.chapters = chapters \o @]

\* _parse_youtube_chapters(text): the single-line branch or the
\* line-by-line branch
ParseYoutubeChapters(t) ==
    IF UsesSeparatorMode(t) THEN ParseSeparatorMode(t) ELSE ParseLineMode(t)

----------------------------------------------------------------------------
(* The texts the parser is run on.                                         *)

MaxCells == 4

MaxLines == 2

MaxEntries == 3

MaxFields == 4

Intro == <<"I", "n", "t", "r", "o">>

Verse == <<"V", "e", "r", "s", "e">>

Chorus == <<"C", "h", "o", "r", "u", "s">>

T000 == <<"0", ":", "0", "0">>

T130 == <<"1", ":", "3", "0">>

T345 == <<"3", ":", "4", "5">>

\* the pieces short texts are assembled from, every combination of them
Cells ==
    { T130, <<":", "3", "0">>, <<".", "5">>, <<"5">>, <<"a">>, <<" ">>, <<"-">>, <<"\n">> }

RECURSIVE CellTextsOfLen(_)
CellTextsOfLen(n) ==
    IF n = 0 THEN {<<>>}
    ELSE {t \o c : t \in CellTextsOfLen(n - 1), c \in Cells}

CellTexts == UNION {CellTextsOfLen(n) : n \in 0..MaxCells}

\* whole lines, combined into texts of several lines
SampleLines ==
    { <<>>,
      <<" ">>,
      <<"x", "y">>,
      T000 \o <<" ">> \o Intro,
      Intro \o <<" ">> \o T000,
      T130 \o <<" ">> \o Verse,
      Verse \o <<" ">> \o T130,
      <<"1", ":", "3", "0", ":", "0", "0">>,
      <<"a", " ">> \o T000 \o <<" ">> \o T130 \o <<" ", "b">>,
      T130 \o <<" ", "-", " ", "a", " ">> \o T000,
      <<"a", " ">> \o T345 \o <<" ", "-">>,
      <<"1", ":", "0", "2", ":", "0", "3", ".", "5", "0", "0", " ", "c">> }

RECURSIVE LineTextsOfLen(_)
LineTextsOfLen(n) ==
    IF n = 1 THEN SampleLines
    ELSE {t \o <<"\n">> \o l : t \in LineTextsOfLen(n - 1), l \in SampleLines}

LineTexts == UNION {LineTextsOfLen(n) : n \in 1..MaxLines}

\* one-line chapter lists "t1 A - t2 B - t3 C"
FormEntries ==
    { <<T000, Intro>>, <<T130, Verse>>, <<T345, Chorus>>,
      <<<<"1", ":", "0", "2", ":", "0", "3">>, <<"A", "-", "b", " ", "c">>>> }

FormEntryText(e) == e[1] \o <<" ">> \o e[2]

RECURSIVE FormJoin(_)
FormJoin(es) ==
    IF Len(es) = 1 THEN FormEntryText(es[1])
    ELSE FormJoin(SubSeq(es, 1, Len(es) - 1)) \o <<" ", "-", " ">> \o FormEntryText(es[Len(es)])

FormLists == UNION {[1..n -> FormEntries] : n \in 2..MaxEntries}

FormTexts == {FormJoin(es) : es \in FormLists}

\* texts the documentation of the parser names
OneTokenFraction ==
    <<"1", ":", "0", "2", ":", "0", "3", ".", "5", " ", "T", "i", "t", "l", "e">>

InputTexts == CellTexts \cup LineTexts \cup FormTexts \cup {OneTokenFraction}

\* the arguments of direct _normalize_time calls: 1..MaxFields fields of
\* digits joined by ':', with or without a '.' and a fraction
FieldValues == { <<"1">>, <<"0", "2">>, <<"0", "3">>, <<"3", "0">>, <<"1", "2", "3">> }

Fractions ==
    { <<>>, <<".">>, <<".", "5">>, <<".", "5", "0">>, <<".", "0", "4", "5">>,
      <<".", "1", "2", "3", "4">> }

RECURSIVE FieldsOfLen(_)
FieldsOfLen(n) ==
    IF n = 1 THEN FieldValues
    ELSE {t \o <<":">> \o f : t \in FieldsOfLen(n - 1), f \in FieldValues}

TimeStrings == {t \o f : t \in UNION {FieldsOfLen(n) : n \in 1..MaxFields}, f \in Fractions}

----------------------------------------------------------------------------
(* The state machine: one call of the parser, or one call of               *)
(* _normalize_time, on an argument drawn from the sets above.              *)

Init ==
    /\ text \in InputTexts
    /\ pc = "ready"
    /\ mode = "none"
    /\ chapters = <<>>
    /\ raised = FALSE
    /\ tokens = <<>>
    /\ time_str = <<>>
    /\ normalized = <<>>
    /\ TimeIdle
    /\ TableIdle
    /\ OtherIdle

\* _parse_youtube_chapters(text) returning from the single-line branch
ParseSeparator ==
    /\ pc = "ready"
    /\ UsesSeparatorMode(text)
    /\ LET r == ParseSeparatorMode(text)
       IN  chapters' = r.chapters /\ raised' = r.raised
    /\ tokens' = ScannedTokens(SplitLines(text))
    /\ mode' = "separator"
    /\ pc' = "done"
    /\ UNCHANGED <<text, time_str, normalized, timeVars, tableVars, otherVars>>

\* _parse_youtube_chapters(text) returning from the line-by-line branch
ParseLines ==
    /\ pc = "ready"
    /\ ~UsesSeparatorMode(text)
    /\ LET r == ParseLineMode(text)
       IN  chapters' = r.chapters /\ raised' = r.raised
    /\ tokens' = ScannedTokens(SplitLines(text))
    /\ mode' = "line"
    /\ pc' = "done"
    /\ UNCHANGED <<text, time_str, normalized, timeVars, tableVars, otherVars>>

Next == ParseSeparator \/ ParseLines

Spec == Init /\ [][Next]_vars

InitNormalize ==
    /\ time_str \in TimeStrings
    /\ pc = "ready"
    /\ normalized = <<>>
    /\ text = <<>>
    /\ mode = "none"
    /\ chapters = <<>>
    /\ raised = FALSE
    /\ tokens = <<>>
    /\ TimeIdle
    /\ TableIdle
    /\ OtherIdle

\* _normalize_time(time_str) with two or three colon-separated fields
NormalizeFields ==
    /\ pc = "ready"
    /\ Len(StrSplit(StrSplit(time_str, ".")[1], ":")) \in {2, 3}
    /\ normalized' = NormalizeTime(time_str)
    /\ pc' = "done"
    /\ UNCHANGED <<text, mode, chapters, raised, tokens, time_str, timeVars, tableVars, otherVars>>

\* _normalize_time(time_str) with any other field count
NormalizePassThrough ==
    /\ pc = "ready"
    /\ Len(StrSplit(StrSplit(time_str, ".")[1], ":")) \notin {2, 3}
    /\ normalized' = NormalizeTime(time_str)
    /\ pc' = "done"
    /\ UNCHANGED <<text, mode, chapters, raised, tokens, time_str, timeVars, tableVars, otherVars>>

NextNormalize == NormalizeFields \/ NormalizePassThrough

SpecNormalize == InitNormalize /\ [][NextNormalize]_vars

----------------------------------------------------------------------------
(* What the properties below are stated with: the texts between the        *)
(* tokens of a line, and titles read without their surrounding whitespace. *)

N000 == <<"0", ":", "0", "0", ":", "0", "0", ".", "0", "0", "0">>

N130 == <<"0", ":", "0", "1", ":", "3", "0", ".", "0", "0", "0">>

N345 == <<"0", ":", "0", "3", ":", "4", "5", ".", "0", "0", "0">>

Done == pc = "done"

\* the text strictly between token i and token i+1 of a line with k tokens;
\* gap 0 runs from the line start, gap k to the line end
Gap(line, toks, i) ==
    SubSeq(line,
           IF i = 0 THEN 1 ELSE toks[i].end,
           IF i = Len(toks) THEN Len(line) ELSE toks[i + 1].start - 1)

RECURSIVE DropLeading(_, _)
DropLeading(s, drop) ==
    IF s # <<>> /\ Head(s) \in drop THEN DropLeading(Tail(s), drop) ELSE s

RECURSIVE DropTrailing(_, _)
DropTrailing(s, drop) ==
    IF s # <<>> /\ s[Len(s)] \in drop THEN DropTrailing(SubSeq(s, 1, Len(s) - 1), drop) ELSE s

Blank == {" ", "\n", "\t"}

Trimmed(s) == DropTrailing(DropLeading(s, Blank), Blank)

\* a text with its leading run of '-' and whitespace removed
TitleOf(s) == DropTrailing(DropLeading(s, Blank \cup {"-"}), Blank)

\* the lines of a text that hold something other than whitespace
NonBlankLines(t) == SelectSeq(StrSplit(t, "\n"), LAMBDA l : Trimmed(l) # <<>>)

\* the entries with a title, in order
Titled(entries) == SelectSeq(entries, LAMBDA e : e[2] # <<>>)

----------------------------------------------------------------------------
(* C1 *)

FormOf(t) == CHOOSE es \in FormLists : FormJoin(es) = t

\* C1 as stated: a one-line text "t1 A - t2 B - t3 C" parses to exactly
\* (normalize(t1), A), (normalize(t2), B), (normalize(t3), C): the " - "
\* joiners are dropped from the titles.
C1_SeparatorsDropped ==
    Done /\ text \in FormTexts =>
        LET es == FormOf(text)
        IN  chapters = [i \in 1..Len(es) |-> <<NormalizeTime(es[i][1]), es[i][2]>>]

\* C1 amended: a one-line text "t1 A - t2 B - t3 C" parses to
\* (normalize(t1), "A -"), (normalize(t2), "B -"), (normalize(t3), "C"): only
\* a leading run of '-'/whitespace is removed, so every title but the last
\* keeps the '-' of the joiner that follows it; no title starts with '-'.
C1_TrailingSeparatorKept ==
    Done /\ text \in FormTexts =>
        LET es == FormOf(text)
        IN  /\ chapters =
                 [i \in 1..Len(es) |->
                    <<NormalizeTime(es[i][1]),
                      IF i < Len(es) THEN es[i][2] \o <<" ", "-">> ELSE es[i][2]>>]
            /\ \A i \in 1..Len(chapters) : Head(chapters[i][2]) # "-"

\* "0:00 Intro - 1:30 Verse - 3:45 Chorus" has been parsed
C1_Witness ==
    /\ Done
    /\ text = T000 \o <<" ">> \o Intro \o <<" ", "-", " ">> \o T130 \o <<" ">> \o Verse
              \o <<" ", "-", " ">> \o T345 \o <<" ">> \o Chorus
    /\ chapters = << <<N000, Intro \o <<" ", "-">>>>, <<N130, Verse \o <<" ", "-">>>>,
                     <<N345, Chorus>> >>

----------------------------------------------------------------------------
(* C2 *)

\* the entries the per-token rule gives for one line
RuleLineEntries(rawline) ==
    LET line == Trimmed(rawline)
        toks == FindIter(line)
        title(i) ==
            IF Trimmed(Gap(line, toks, i)) # <<>> THEN TitleOf(Gap(line, toks, i))
            ELSE TitleOf(Gap(line, toks, i - 1))
    IN  Titled([i \in 1..Len(toks) |-> <<NormalizeTime(Group(line, toks[i])), title(i)>>])

RECURSIVE RuleEntries(_)
RuleEntries(lines) ==
    IF lines = <<>> THEN <<>> ELSE RuleLineEntries(Head(lines)) \o RuleEntries(Tail(lines))

\* C2: in line mode every token of every non-empty line gets its title on its
\* own: the text after it (up to the next token or the line end) if that is
\* not empty, else the text before it (from the previous token or the line
\* start), less a leading run of '-'/whitespace; texts are read without
\* their surrounding whitespace.  "0:00 Intro" and "Intro 0:00" both give
\* the title "Intro".
C2_TitlePerToken ==
    Done /\ mode = "line" =>
        /\ chapters = RuleEntries(StrSplit(text, "\n"))
        /\ text = T000 \o <<" ">> \o Intro => chapters = << <<N000, Intro>> >>
        /\ text = Intro \o <<" ">> \o T000 => chapters = << <<N000, Intro>> >>

\* a line of several tokens in a text of two lines: the first token takes the
\* text before it, the second the text after it
C2_Witness ==
    /\ Done
    /\ mode = "line"
    /\ text = <<"a", " ">> \o T000 \o <<" ">> \o T130 \o <<" ", "b", "\n">>
              \o Intro \o <<" ">> \o T000
    /\ chapters = << <<N000, <<"a">>>>, <<N130, <<"b">>>>, <<N000, Intro>> >>

----------------------------------------------------------------------------
(* C3 *)

\* C3: in separator mode the title of entry i is the text strictly between
\* token i and token i+1 (the line end for the last token) less its leading
\* run of '-'/whitespace (and read without surrounding whitespace); the text
\* before the first token is never a title; entries whose title is empty
\* are discarded.
C3_SeparatorTitles ==
    Done /\ mode = "separator" =>
        LET line == Trimmed(text)
            toks == FindIter(line)
        IN  chapters =
                Titled([i \in 1..Len(toks) |->
                          <<NormalizeTime(Group(line, toks[i])), TitleOf(Gap(line, toks, i))>>])

\* text stands before the first token and an entry was discarded
C3_Witness ==
    /\ Done
    /\ mode = "separator"
    /\ text = <<"a", " ">> \o T000 \o <<" ">> \o T130 \o <<" ", "b">>
    /\ chapters = << <<N130, <<"b">>>> >>

----------------------------------------------------------------------------
(* C4 *)

\* C4: separator mode is used iff the text holds exactly one non-empty line
\* and that line holds two or more tokens; one line with fewer tokens, and
\* every text of two or more lines, goes to line mode.
C4_ModeSelection ==
    Done =>
        LET lines == NonBlankLines(text)
        IN  /\ mode = "separator" <=> (Len(lines) = 1 /\ Len(FindIter(lines[1])) >= 2)
            /\ mode = "line" <=> ~(Len(lines) = 1 /\ Len(FindIter(lines[1])) >= 2)

\* a text of two lines, one of them with two tokens, went to line mode
C4_Witness ==
    /\ Done
    /\ mode = "line"
    /\ Len(NonBlankLines(text)) = 2
    /\ Len(FindIter(NonBlankLines(text)[1])) >= 2

----------------------------------------------------------------------------
(* C5 *)

DigitAt(s, p) == p >= 1 /\ p <= Len(s) /\ s[p] \in DigitSet

CharAt(s, p, c) == p >= 1 /\ p <= Len(s) /\ s[p] = c

\* the end (exclusive) of the greedy match of
\* \d{1,2}:\d{2}(:\d{2})?(\.\d{lo,hi})? that starts at pos, 0 if there is none
GreedyEnd(s, pos, lo, hi) ==
    LET h == IF DigitAt(s, pos) /\ DigitAt(s, pos + 1) /\ CharAt(s, pos + 2, ":") THEN 2
             ELSE IF DigitAt(s, pos) /\ CharAt(s, pos + 1, ":") THEN 1
             ELSE 0
        m == pos + h + 1
        e1 == m + 2
        e2 == IF CharAt(s, e1, ":") /\ DigitAt(s, e1 + 1) /\ DigitAt(s, e1 + 2)
              THEN e1 + 3 ELSE e1
        run == MaxOf({n \in 0..hi : \A k \in 1..n : DigitAt(s, e2 + k)})
    IN  IF h > 0 /\ DigitAt(s, m) /\ DigitAt(s, m + 1)
        THEN IF CharAt(s, e2, ".") /\ run >= lo THEN e2 + 1 + run ELSE e2
        ELSE 0

\* the leftmost-first greedy matches in a text, left to right
RECURSIVE GreedyTokensFrom(_, _, _, _)
GreedyTokensFrom(s, pos, lo, hi) ==
    IF pos > Len(s) THEN <<>>
    ELSE LET e == GreedyEnd(s, pos, lo, hi)
         IN  IF e = 0 THEN GreedyTokensFrom(s, pos + 1, lo, hi)
             ELSE <<SubSeq(s, pos, e - 1)>> \o GreedyTokensFrom(s, e, lo, hi)

Title == <<"T", "i", "t", "l", "e">>

\* C5 as stated: the tokens are the leftmost-first greedy matches of
\* \d{1,2}:\d{2}(:\d{2})?(\.\d{1,3})?, a fraction of 1, 2 or 3 digits
\* belonging to the token; "1:02:03.5 Title" gives ("1:02:03.500", "Title").
C5_FractionOneToThree ==
    Done =>
        /\ tokens = GreedyTokensFrom(text, 1, 1, 3)
        /\ text = OneTokenFraction =>
              chapters = << << <<"1", ":", "0", "2", ":", "0", "3", ".", "5", "0", "0">>,
                               Title >> >>

\* C5 amended: the tokens are the leftmost-first greedy matches of
\* \d{1,2}:\d{2}(:\d{2})?(\.\d{3})?: a fraction belongs to the token only
\* when it has three digits; "1:02:03.5 Title" gives the token "1:02:03"
\* and the entry ("1:02:03.000", ".5 Title").
C5_FractionExactlyThree ==
    Done =>
        /\ tokens = GreedyTokensFrom(text, 1, 3, 3)
        /\ text = OneTokenFraction =>
              chapters = << << <<"1", ":", "0", "2", ":", "0", "3", ".", "0", "0", "0">>,
                               <<".", "5", " ">> \o Title >> >>

\* "1:02:03.5 Title" has been parsed
C5_Witness ==
    /\ Done
    /\ text = OneTokenFraction
    /\ tokens = << <<"1", ":", "0", "2", ":", "0", "3">> >>
    /\ chapters[1][2] = <<".", "5", " ">> \o Title

----------------------------------------------------------------------------
(* C6 *)

\* a run of digits without its leading zeros (one digit at least)
Unpadded(f) ==
    LET nz == {i \in 1..Len(f) : f[i] # "0"}
    IN  IF nz = {} THEN <<"0">> ELSE SubSeq(f, MinOf(nz), Len(f))

TwoDigits(f) == IF Len(Unpadded(f)) < 2 THEN <<"0">> \o Unpadded(f) ELSE Unpadded(f)

ReferenceNormalize(s) ==
    LET dots == {i \in 1..Len(s) : s[i] = "."}
        whole == IF dots = {} THEN s ELSE SubSeq(s, 1, MinOf(dots) - 1)
        suffix == IF dots = {} THEN <<"0", "0", "0">> ELSE SubSeq(s, MinOf(dots) + 1, Len(s))
        mmm == [k \in 1..3 |-> IF k <= Len(suffix) THEN suffix[k] ELSE "0"]
        fields == StrSplit(whole, ":")
    IN  IF Len(fields) = 2
        THEN <<"0", ":">> \o TwoDigits(fields[1]) \o <<":">> \o TwoDigits(fields[2])
             \o <<".">> \o mmm
        ELSE IF Len(fields) = 3
        THEN Unpadded(fields[1]) \o <<":">> \o TwoDigits(fields[2]) \o <<":">>
             \o TwoDigits(fields[3]) \o <<".">> \o mmm
        ELSE s

\* C6: normalize_time(token) is: the text after the '.' as milliseconds
\* ('000' without one), zero-padded on the right and cut to 3 digits; two
\* fields give 0:MM:SS.mmm, three give H:MM:SS.mmm (hours unpadded, minutes
\* and seconds padded to two digits); any other field count returns the
\* token unchanged.  "1:30" gives "0:01:30.000".
C6_NormalizeTime ==
    Done =>
        /\ normalized = ReferenceNormalize(time_str)
        /\ time_str = T130 => normalized = N130

\* "1:02:03.5" has been normalised to "1:02:03.500"
C6_Witness ==
    /\ Done
    /\ time_str = <<"1", ":", "0", "2", ":", "0", "3", ".", "5">>
    /\ normalized = <<"1", ":", "0", "2", ":", "0", "3", ".", "5", "0", "0">>

----------------------------------------------------------------------------
(* C7 *)

\* C7: every entry returned, in either mode, has a title that is neither
\* empty nor whitespace only; the lone line "1:30:00" gives no entry and no
\* error.
C7_TitlesNotBlank ==
    Done =>
        /\ \A i \in 1..Len(chapters) :
              \E k \in 1..Len(chapters[i][2]) : chapters[i][2][k] \notin Blank
        /\ text = <<"1", ":", "3", "0", ":", "0", "0">> => chapters = <<>> /\ ~raised

\* the lone line "1:30:00" has been parsed: a token, and no entry
C7_Witness ==
    /\ Done
    /\ text = <<"1", ":", "3", "0", ":", "0", "0">>
    /\ tokens = <<text>>
    /\ chapters = <<>>
    /\ ~raised

----------------------------------------------------------------------------
(* C8 *)

RECURSIVE IsSubsequence(_, _)
IsSubsequence(a, b) ==
    IF a = <<>> THEN TRUE
    ELSE IF b = <<>> THEN FALSE
    ELSE IF Head(a) = Head(b) THEN IsSubsequence(Tail(a), Tail(b))
    ELSE IsSubsequence(a, Tail(b))

\* C8: the times of the entries are the normalised form of a subsequence of
\* the tokens in scan order (line by line, left to right): at most one
\* entry per token, in text order, never sorted by time.
C8_ScanOrder ==
    Done =>
        /\ Len(chapters) <= Len(tokens)
        /\ IsSubsequence([i \in 1..Len(chapters) |-> chapters[i][1]],
                         [i \in 1..Len(tokens) |-> NormalizeTime(tokens[i])])

\* tokens out of chronological order came back in text order
C8_Witness ==
    /\ Done
    /\ text = T130 \o <<" ">> \o Verse \o <<"\n">> \o T000 \o <<" ">> \o Intro
    /\ chapters = << <<N130, Verse>>, <<N000, Intro>> >>

----------------------------------------------------------------------------
(* C9 *)

\* C9: the parser never raises, whatever the text: it always returns a
\* (possibly empty) list.
C9_NeverRaises == Done => ~raised

\* a malformed text was parsed to the one entry it holds
C9_Witness ==
    /\ Done
    /\ ~raised
    /\ text = <<":", "3", "0">> \o T130 \o <<".", "5">>
    /\ chapters = << <<N130, <<".", "5">>>> >>

----------------------------------------------------------------------------
(* C10 *)

HasToken(l) == FindIter(l) # <<>>

RECURSIVE JoinLines(_)
JoinLines(lines) ==
    IF lines = <<>> THEN <<>>
    ELSE IF Len(lines) = 1 THEN lines[1]
    ELSE lines[1] \o <<"\n">> \o JoinLines(Tail(lines))

\* the text with the lines that hold no token taken out
WithoutTokenlessLines(t) == JoinLines(SelectSeq(StrSplit(t, "\n"), HasToken))

\* C10 as stated: a text without any token parses to the empty list, and a
\* line without a token contributes nothing and does not affect the entries
\* of the other lines: taking such lines out leaves the result unchanged.
C10_TokenlessLinesInert ==
    Done =>
        /\ FindIter(text) = <<>> => chapters = <<>>
        /\ chapters = ParseYoutubeChapters(WithoutTokenlessLines(text)).chapters

\* C10 amended: a text without any token parses to the empty list; taking
\* the lines without a token out of a text leaves the result unchanged
\* unless that changes the mode, that is unless it leaves a single line of
\* two or more tokens.
C10_TokenlessLinesInertInMode ==
    Done =>
        /\ FindIter(text) = <<>> => chapters = <<>>
        /\ UsesSeparatorMode(WithoutTokenlessLines(text)) = UsesSeparatorMode(text) =>
              chapters = ParseYoutubeChapters(WithoutTokenlessLines(text)).chapters

\* a line without a token stood before a line with one
C10_Witness ==
    /\ Done
    /\ text = <<"x", "y", "\n">> \o T000 \o <<" ">> \o Intro
    /\ chapters = << <<N000, Intro>> >>
----------------------------------------------------------------------------
(* Python's float.  TimePosition.seconds and every intermediate of         *)
(* from_milliseconds, from_string and to_milliseconds is an IEEE binary64  *)
(* value: each operation returns the exact result rounded to 53            *)
(* significant bits, ties to even.  The exact results need more bits than  *)
(* a model integer has, so a natural number is held as its base-2^15       *)
(* digits, least significant first, without leading zero digits; <<>> is 0.*)

LimbBits == 3 * 5

LimbBase == 2 ^ LimbBits

RECURSIVE BigOfInt(_)
BigOfInt(n) == IF n = 0 THEN <<>> ELSE <<n % LimbBase>> \o BigOfInt(n \div LimbBase)

RECURSIVE BigToInt(_)
BigToInt(b) == IF b = <<>> THEN 0 ELSE b[1] + LimbBase * BigToInt(Tail(b))

RECURSIVE BigTrim(_)
BigTrim(b) ==
    IF b # <<>> /\ b[Len(b)] = 0 THEN BigTrim(SubSeq(b, 1, Len(b) - 1)) ELSE b

Limb(b, i) == IF i <= Len(b) THEN b[i] ELSE 0

RECURSIVE AddFrom(_, _, _, _)
AddFrom(a, b, i, carry) ==
    IF i > Len(a) /\ i > Len(b)
    THEN BigOfInt(carry)
    ELSE LET s == Limb(a, i) + Limb(b, i) + carry
         IN  <<s % LimbBase>> \o AddFrom(a, b, i + 1, s \div LimbBase)

BigAdd(a, b) == AddFrom(a, b, 1, 0)

RECURSIVE SubFrom(_, _, _, _)
SubFrom(a, b, i, borrow) ==
    IF i > Len(a)
    THEN <<>>
    ELSE LET s == a[i] - Limb(b, i) - borrow
         IN  IF s < 0
             THEN <<s + LimbBase>> \o SubFrom(a, b, i + 1, 1)
             ELSE <<s>> \o SubFrom(a, b, i + 1, 0)

\* a - b for a >= b
BigSub(a, b) == BigTrim(SubFrom(a, b, 1, 0))

RECURSIVE MulFrom(_, _, _, _)
MulFrom(a, c, i, carry) ==
    IF i > Len(a)
    THEN BigOfInt(carry)
    ELSE LET p == a[i] * c + carry
         IN  <<p % LimbBase>> \o MulFrom(a, c, i + 1, p \div LimbBase)

\* a * c for 0 <= c <= 2^15
BigMulSmall(a, c) == BigTrim(MulFrom(a, c, 1, 0))

\* the quotient q and the remainder r of a by c, 0 < c <= 2^15
RECURSIVE BigDivMod(_, _)
BigDivMod(a, c) ==
    IF a = <<>>
    THEN [q |-> <<>>, r |-> 0]
    ELSE LET hi  == BigDivMod(Tail(a), c)
             cur == hi.r * LimbBase + a[1]
         IN  [q |-> BigTrim(<<cur \div c>> \o hi.q), r |-> cur % c]

\* -1, 0 or 1 as a < b, a = b or a > b
RECURSIVE BigCmp(_, _)
BigCmp(a, b) ==
    IF Len(a) # Len(b) THEN (IF Len(a) < Len(b) THEN -1 ELSE 1)
    ELSE IF a = <<>> THEN 0
    ELSE IF a[Len(a)] # b[Len(b)] THEN (IF a[Len(a)] < b[Len(b)] THEN -1 ELSE 1)
    ELSE BigCmp(BigTrim(SubSeq(a, 1, Len(a) - 1)), BigTrim(SubSeq(b, 1, Len(b) - 1)))

\* a * 2^n
RECURSIVE BigShl(_, _)
BigShl(a, n) ==
    IF a = <<>> THEN <<>>
    ELSE IF n >= LimbBits THEN BigShl(<<0>> \o a, n - LimbBits)
    ELSE BigMulSmall(a, 2 ^ n)

\* a \div 2^n
RECURSIVE BigShr(_, _)
BigShr(a, n) ==
    IF a = <<>> THEN <<>>
    ELSE IF n >= LimbBits THEN BigShr(Tail(a), n - LimbBits)
    ELSE BigDivMod(a, 2 ^ n).q

RECURSIVE BitLen(_)
BitLen(n) == IF n = 0 THEN 0 ELSE 1 + BitLen(n \div 2)

\* the number of significant bits of a
BigBitLen(a) ==
    IF a = <<>> THEN 0 ELSE LimbBits * (Len(a) - 1) + BitLen(a[Len(a)])

BigIsOdd(a) == a # <<>> /\ a[1] % 2 = 1

\* a divided by 2^n, rounded to the nearest integer, a tie to the even one;
\* sticky says that the exact value lies strictly above a
BigShrRound(a, n, sticky) ==
    IF n = 0 THEN a
    ELSE LET kept    == BigShr(a, n)
             dropped == BigSub(a, BigShl(kept, n))
             half    == BigCmp(dropped, BigShl(<<1>>, n - 1))
             up      == half > 0 \/ (half = 0 /\ (sticky \/ BigIsOdd(kept)))
         IN  IF up THEN BigAdd(kept, <<1>>) ELSE kept

\* the significant bits of a binary64 value
MantissaBits == 53

\* the float m * 2^e in its one form: m odd, or 0.0 as <<>> * 2^0
RECURSIVE FloatCanon(_, _)
FloatCanon(m, e) ==
    IF m = <<>> THEN [m |-> <<>>, e |-> 0]
    ELSE IF m[1] = 0 THEN FloatCanon(Tail(m), e + LimbBits)
    ELSE IF m[1] % 2 = 0 THEN FloatCanon(BigShr(m, 1), e + 1)
    ELSE [m |-> m, e |-> e]

\* the exact value m * 2^e (sticky: and a little more, less than 2^e) rounded
\* to the nearest float, a tie to the even one
FloatRound(m, e, sticky) ==
    LET extra == BigBitLen(m) - MantissaBits
    IN  IF extra <= 0 THEN FloatCanon(m, e)
        ELSE FloatCanon(BigShrRound(m, extra, sticky), e + extra)

\* float(n) of an int 0 <= n < 2^31: exact
FloatOfInt(n) == FloatCanon(BigOfInt(n), 0)

\* a / b of two ints, a >= 0 and 0 < b <= 2^15: Python's true division
\* returns the quotient correctly rounded
IntTrueDiv(a, b) ==
    LET k  == MantissaBits + LimbBits + 2
        dm == BigDivMod(BigShl(BigOfInt(a), k), b)
    IN  FloatRound(dm.q, -k, dm.r # 0)

\* the mantissa of x written with the exponent e <= x.e
Aligned(x, e) == BigShl(x.m, x.e - e)

\* x + y
FloatAdd(x, y) ==
    LET e == IF x.e < y.e THEN x.e ELSE y.e
    IN  FloatRound(BigAdd(Aligned(x, e), Aligned(y, e)), e, FALSE)

\* x - y for x >= y
FloatSub(x, y) ==
    LET e == IF x.e < y.e THEN x.e ELSE y.e
    IN  FloatRound(BigSub(Aligned(x, e), Aligned(y, e)), e, FALSE)

\* x * c for an int 0 <= c <= 2^15
FloatMulInt(x, c) == FloatRound(BigMulSmall(x.m, c), x.e, FALSE)

\* x < y
FloatLess(x, y) ==
    LET e == IF x.e < y.e THEN x.e ELSE y.e
    IN  BigCmp(Aligned(x, e), Aligned(y, e)) < 0

\* int(x) for x >= 0: the integer part
FloatInt(x) ==
    IF x.e >= 0 THEN BigToInt(BigShl(x.m, x.e)) ELSE BigToInt(BigShr(x.m, 0 - x.e))

\* divmod(x, c) for x >= 0 and an int 0 < c <= 2^15.  float_divmod takes
\* mod = fmod(x, c), which is exact, and div = (x - mod) / c, which is the
\* integer floor(x / c) exactly; div is given as the int that int(div) is.
FloatDivmod(x, c) ==
    LET n == FloatInt(x) \div c
    IN  [div |-> n, mod |-> FloatSub(x, FloatOfInt(c * n))]

\* the digits after the point the format asks for
FormatPrecision == 2

\* round(x * 10^2) as the format spec ".2f" rounds: the exact value of x,
\* to the nearest, a tie to the even one
Hundredths(x) ==
    LET scaled == BigMulSmall(x.m, 10 ^ FormatPrecision)
    IN  IF x.e >= 0 THEN BigToInt(BigShl(scaled, x.e))
        ELSE BigToInt(BigShrRound(scaled, 0 - x.e, FALSE))

\* f"{x:05.2f}": two decimals, zero-padded on the left to five characters
Format052f(x) ==
    LET h == Hundredths(x)
    IN  Format02d(h \div 10 ^ FormatPrecision) \o <<".">>
        \o Format02d(h % 10 ^ FormatPrecision)

----------------------------------------------------------------------------
(* TimePosition (movie_viewer/core/models.py): a record                    *)
(* [hours, minutes, seconds] with int hours and minutes and float seconds. *)

\* TimePosition.from_milliseconds(ms)
from_milliseconds(n) ==
    LET total_seconds == IntTrueDiv(n, 1000)
        hr == FloatDivmod(total_seconds, 3600)
        mn == FloatDivmod(hr.mod, 60)
    IN  [hours |-> hr.div, minutes |-> mn.div, seconds |-> mn.mod]

MinFractionDigits == 1

MaxFractionDigits == 3

\* ^(\d{1,2}):(\d{2}):(\d{2})(?:\.(\d{1,3}))?$ with h hour digits and f
\* fraction digits, f = 0 for the optional group left out
StringPattern(h, f) ==
    [k \in 1..h |-> "\\d"] \o <<":", "\\d", "\\d", ":", "\\d", "\\d">>
    \o (IF f = 0 THEN <<>> ELSE <<".">> \o [k \in 1..f |-> "\\d"])

\* where $ matches: at the end of the string and before a newline that ends it
DollarEnds(s) ==
    {Len(s)} \cup (IF s # <<>> /\ s[Len(s)] = "\n" THEN {Len(s) - 1} ELSE {})

\* re.match(pattern, time_str).groups(), None without a match; the group
\* that did not take part is the empty string here
StringGroups(s) ==
    LET shapes == {<<h, f>> : h \in MinHourDigits..MaxHourDigits,
                              f \in {0} \cup (MinFractionDigits..MaxFractionDigits)}
        ok == {p \in shapes : /\ MatchesAt(s, 1, StringPattern(p[1], p[2]))
                              /\ Len(StringPattern(p[1], p[2])) \in DollarEnds(s)}
    IN  IF ok = {} THEN None
        ELSE LET p == CHOOSE q \in ok : TRUE
                 h == p[1]
             IN  [hours        |-> SubSeq(s, 1, h),
                  minutes      |-> SubSeq(s, h + 2, h + 3),
                  seconds      |-> SubSeq(s, h + 5, h + 6),
                  milliseconds |-> IF p[2] = 0 THEN <<>>
                                   ELSE SubSeq(s, h + 8, h + 7 + p[2])]

\* TimePosition.from_string(time_str)
from_string(s) ==
    LET g == StringGroups(s)
    IN  IF g = None THEN None
        ELSE LET msv == IF g.milliseconds = <<>> THEN 0 ELSE IntOf(g.milliseconds)
             IN  [hours   |-> IntOf(g.hours),
                  minutes |-> IntOf(g.minutes),
                  seconds |-> FloatAdd(FloatOfInt(IntOf(g.seconds)), IntTrueDiv(msv, 1000))]

\* TimePosition.to_milliseconds()
to_milliseconds(t) ==
    FloatInt(FloatAdd(FloatOfInt(t.hours * 3600000 + t.minutes * 60000),
                      FloatMulInt(t.seconds, 1000)))

\* TimePosition.to_string(include_ms)
to_string(t, inc) ==
    FormatD(t.hours) \o <<":">> \o Format02d(t.minutes) \o <<":">>
    \o (IF inc THEN Format052f(t.seconds) ELSE Format02d(FloatInt(t.seconds)))

----------------------------------------------------------------------------
(* The arguments the TimePosition calls are made with.                     *)

SampleHours == {0, 1, 10}

SampleMinutes == {0, 1, 59}

SampleSeconds == {0, 1, 8, 59}

SampleMillis == {0, 1, 2, 4, 5, 10, 49, 50, 100, 125, 250, 499, 500, 501, 995, 999}

\* millisecond counts h:m:s.f for the sampled fields
Milliseconds ==
    {h * 3600000 + m * 60000 + s * 1000 + f :
        h \in SampleHours, m \in SampleMinutes, s \in SampleSeconds, f \in SampleMillis}

HourTexts == {<<>>, <<"0">>, <<"1">>, <<"1", "2">>, <<"1", "2", "3">>}

FieldTexts == {<<"0", "0">>, <<"0", "1">>, <<"5", "9">>, <<"9", "9">>, <<"5">>}

FractionTexts ==
    {<<>>, <<".">>, <<".", "5">>, <<".", "5", "0">>, <<".", "5", "0", "0">>,
     <<".", "0", "0", "1">>, <<".", "9", "9", "9">>, <<".", "1", "2", "3", "4">>}

TailTexts == {<<>>, <<"\n">>, <<" ">>}

\* texts "H:MM:SS[.f]" well-formed or not, and the texts the documentation
\* of from_string names
TimeTexts ==
    {h \o <<":">> \o m \o <<":">> \o s \o f \o t :
        h \in HourTexts, m \in FieldTexts, s \in FieldTexts,
        f \in FractionTexts, t \in TailTexts}
    \cup {<<"1", ":", "3", "0">>,
          <<"n", "o", "t", " ", "a", " ", "t", "i", "m", "e">>,
          <<>>}

----------------------------------------------------------------------------
(* The state machine of the TimePosition calls: a TimePosition is built by *)
(* from_milliseconds or by from_string, then converted by to_milliseconds  *)
(* or to_string, and the str to_string returned is parsed again.           *)

\* no parser call and no _normalize_time call has been made
ParserIdle ==
    /\ text = <<>>
    /\ mode = "none"
    /\ chapters = <<>>
    /\ raised = FALSE
    /\ tokens = <<>>
    /\ normalized = <<>>

InitTime ==
    /\ pc = "ready"
    /\ \/ ms_arg \in Milliseconds /\ time_str = <<>>
       \/ ms_arg = -1 /\ time_str \in TimeTexts
    /\ position = None
    /\ milliseconds = -1
    /\ include_ms = TRUE
    /\ formatted = <<>>
    /\ reparsed = None
    /\ ParserIdle
    /\ TableIdle
    /\ OtherIdle

parserVars == <<text, mode, chapters, raised, tokens, normalized>>

\* position = TimePosition.from_milliseconds(ms)
CallFromMilliseconds ==
    /\ pc = "ready"
    /\ ms_arg >= 0
    /\ position' = from_milliseconds(ms_arg)
    /\ pc' = "constructed"
    /\ UNCHANGED <<parserVars, tableVars, otherVars, time_str, ms_arg, milliseconds, include_ms, formatted, reparsed>>

\* position = TimePosition.from_string(time_str)
CallFromString ==
    /\ pc = "ready"
    /\ ms_arg = -1
    /\ position' = from_string(time_str)
    /\ pc' = "constructed"
    /\ UNCHANGED <<parserVars, tableVars, otherVars, time_str, ms_arg, milliseconds, include_ms, formatted, reparsed>>

\* milliseconds = position.to_milliseconds()
CallToMilliseconds ==
    /\ pc = "constructed"
    /\ position # None
    /\ milliseconds' = to_milliseconds(position)
    /\ pc' = "converted"
    /\ UNCHANGED <<parserVars, tableVars, otherVars, time_str, ms_arg, position, include_ms, formatted, reparsed>>

\* formatted = position.to_string(include_ms)
CallToString ==
    /\ pc = "constructed"
    /\ position # None
    /\ \E inc \in BOOLEAN :
          /\ include_ms' = inc
          /\ formatted' = to_string(position, inc)
    /\ pc' = "formatted"
    /\ UNCHANGED <<parserVars, tableVars, otherVars, time_str, ms_arg, position, milliseconds, reparsed>>

\* reparsed = TimePosition.from_string(formatted)
CallReparse ==
    /\ pc = "formatted"
    /\ reparsed' = from_string(formatted)
    /\ pc' = "reparsed"
    /\ UNCHANGED <<parserVars, tableVars, otherVars, time_str, ms_arg, position, milliseconds, include_ms, formatted>>

NextTime ==
    \/ CallFromMilliseconds
    \/ CallFromString
    \/ CallToMilliseconds
    \/ CallToString
    \/ CallReparse

SpecTime == InitTime /\ [][NextTime]_vars

----------------------------------------------------------------------------
(* What the properties of TimePosition are stated with.                    *)

\* the decimal digits of n, zero-padded on the left to w characters
ZeroPad(n, w) ==
    LET d == FormatD(n)
    IN  IF Len(d) < w THEN [k \in 1..(w - Len(d)) |-> "0"] \o d ELSE d

\* the canonical text H:MM:SS.mmm of a millisecond count
Canonical(n) ==
    FormatD(n \div 3600000) \o <<":">> \o ZeroPad((n \div 60000) % 60, 2) \o <<":">>
    \o ZeroPad((n \div 1000) % 60, 2) \o <<".">> \o ZeroPad(n % 1000, 3)

\* the whole milliseconds nearest to x seconds
Millis(x) ==
    IF x.e >= 0 THEN BigToInt(BigShl(BigMulSmall(x.m, 1000), x.e))
    ELSE BigToInt(BigShrRound(BigMulSmall(x.m, 1000), 0 - x.e, FALSE))

\* a text whose fraction of one or two digits is right-padded to three
PadFraction(s) ==
    LET dots == {i \in 1..Len(s) : s[i] = "."}
        n == Len(s) - MaxOf(dots)
    IN  IF dots # {} /\ n \in {1, 2} THEN s \o [k \in 1..(3 - n) |-> "0"] ELSE s

\* the text is exactly H:MM:SS, H:MM:SS.f, H:MM:SS.ff or H:MM:SS.fff
WellShaped(s) ==
    \E h \in 1..2, f \in 0..3 :
        /\ Len(s) = Len(StringPattern(h, f))
        /\ MatchesAt(s, 1, StringPattern(h, f))

\* a from_milliseconds call has returned / a from_string call has returned
BuiltFromMs == pc # "ready" /\ ms_arg >= 0

BuiltFromString == pc # "ready" /\ ms_arg = -1

(* C11 *)

\* C11: for every int m >= 0, from_milliseconds(m).to_milliseconds() == m: no
\* millisecond is gained or lost by converting to a TimePosition and back.
C11_MillisecondRoundTrip ==
    (pc = "converted" /\ ms_arg >= 0) => milliseconds = ms_arg

(* C12 *)

\* C12: for every t = from_milliseconds(m), from_string(t.to_string(True)) is
\* not None and denotes the same hours, minutes and seconds with milliseconds
\* as t.
C12_StringRoundTrip ==
    (pc = "reparsed" /\ ms_arg >= 0 /\ include_ms) =>
        /\ reparsed # None
        /\ reparsed.hours = position.hours
        /\ reparsed.minutes = position.minutes
        /\ Millis(reparsed.seconds) = Millis(position.seconds)

(* C13 *)

\* C13: to_string(True) gives the canonical H:MM:SS.mmm: hours unpadded,
\* minutes and whole seconds (below 60) in two digits, and exactly three
\* digits of milliseconds equal to the millisecond part of the TimePosition.
C13_CanonicalString ==
    (pc = "formatted" /\ ms_arg >= 0 /\ include_ms) => formatted = Canonical(ms_arg)

(* C14 *)

\* C14: from_string right-pads a fraction of one or two digits with zeros to
\* three digits before reading it as milliseconds: "H:MM:SS.5" and
\* "H:MM:SS.50" give what "H:MM:SS.500" gives.
C14_FractionRightPadded ==
    (BuiltFromString /\ position # None /\ time_str[Len(time_str)] \in DigitSet) =>
        position = from_string(PadFraction(time_str))

(* C15 *)

\* C15: from_string returns None, without raising, for every text that is not
\* exactly of the shape H:MM:SS, H:MM:SS.f, H:MM:SS.ff or H:MM:SS.fff; "1:30"
\* and "not a time" give None.
C15_OtherShapesRejected ==
    (BuiltFromString /\ ~WellShaped(time_str)) => position = None

(* C16 *)

\* C16: every TimePosition from_string or from_milliseconds returns has
\* hours >= 0, minutes in 0..59 and seconds in [0, 60).
C16_FieldRanges ==
    (pc # "ready" /\ position # None) =>
        /\ position.hours >= 0
        /\ position.minutes \in 0..59
        /\ FloatLess(position.seconds, FloatOfInt(60))

----------------------------------------------------------------------------
(* ChapterTableManager (movie_viewer/core/chapter_manager.py) and the      *)
(* handlers of VideoPlayerApp (movie_viewer/app.py) that use it: the table *)
(* model, the selection of the view, the position of the media player and  *)
(* the chapter file.                                                       *)

\* the rows the table may grow to
MaxRows == 3

\* the handlers one behaviour runs
MaxCalls == 4

\* the characters in the order of their code points, as QString compares
CodeOrder ==
    <<"\t", "\n", " ", "-", ".">> \o Digits \o <<":">> \o
    <<
      "A", "B", "C", "D", "E", "F", "G", "H", "I", "J", "K", "L", "M",
      "N", "O", "P", "Q", "R", "S", "T", "U", "V", "W", "X", "Y", "Z"
    >> \o
    <<
      "a", "b", "c", "d", "e", "f", "g", "h", "i", "j", "k", "l", "m",
      "n", "o", "p", "q", "r", "s", "t", "u", "v", "w", "x", "y", "z"
    >>

CodePoint(c) == CHOOSE i \in 1..Len(CodeOrder) : CodeOrder[i] = c

\* a < b for two QStrings: QSortFilterProxyModel compares the cells of the
\* sort column as strings, case-sensitively, code unit by code unit
StrLess(a, b) ==
    \E k \in 1..Len(b) :
        /\ \A i \in 1..(k - 1) : i <= Len(a) /\ a[i] = b[i]
        /\ k > Len(a) \/ (k <= Len(a) /\ CodePoint(a[k]) < CodePoint(b[k]))

\* a sort that puts rows with equal cells in column 0 in reverse order
SortedTiesReversed(rs) ==
    LET n == Len(rs)
        before(i, j) == StrLess(rs[i][1], rs[j][1]) \/ (rs[i][1] = rs[j][1] /\ i > j)
        rank(i) == Cardinality({j \in 1..n : before(j, i)})
    IN  [k \in 1..n |-> rs[CHOOSE i \in 1..n : rank(i) = k - 1]]

\* proxy_model.sort(0, Qt.AscendingOrder) read back row by row: a stable
\* sort of the rows by the string in column 0
SortedByTime(rs) ==
    LET n == Len(rs)
        before(i, j) == StrLess(rs[i][1], rs[j][1]) \/ (rs[i][1] = rs[j][1] /\ i < j)
        rank(i) == Cardinality({j \in 1..n : before(j, i)})
    IN  [k \in 1..n |-> rs[CHOOSE i \in 1..n : rank(i) = k - 1]]

\* get_selected_time(): the time of the row of the first selected index
get_selected_time ==
    IF selected = <<>> THEN None
    ELSE LET cell == rows[selected[1]][1]
         IN  IF cell # <<>> THEN from_string(cell) ELSE None

\* file.write(" ".join(row_data) + "\n") for every row
RECURSIVE SaveText(_)
SaveText(rs) ==
    IF rs = <<>> THEN <<>>
    ELSE Head(rs)[1] \o <<" ">> \o Head(rs)[2] \o <<"\n">> \o SaveText(Tail(rs))

\* file.readlines(): the lines, each with the newline that ends it
RECURSIVE ReadLines(_)
ReadLines(data) ==
    LET ends == {i \in 1..Len(data) : data[i] = "\n"}
    IN  IF data = <<>> THEN <<>>
        ELSE IF ends = {} THEN <<data>>
        ELSE <<SubSeq(data, 1, MinOf(ends))>>
             \o ReadLines(SubSeq(data, MinOf(ends) + 1, Len(data)))

\* re.split(r'\s+', line) without maxsplit: every whitespace run splits
RECURSIVE SplitEverySpace(_)
SplitEverySpace(line) ==
    LET sp == {i \in 1..Len(line) : IsSpace(line[i])}
        a == MinOf(sp)
        z == MaxOf({j \in a..Len(line) : \A i \in a..j : IsSpace(line[i])})
    IN  IF sp = {} THEN <<line>>
        ELSE <<SubSeq(line, 1, a - 1)>> \o SplitEverySpace(SubSeq(line, z + 1, Len(line)))

\* re.split(r'\s+', line, maxsplit=1): the text before the first whitespace
\* run and the text after it, or the line alone if it has no whitespace
SplitFirstSpace(line) ==
    LET sp == {i \in 1..Len(line) : IsSpace(line[i])}
        a == MinOf(sp)
        z == MaxOf({j \in a..Len(line) : \A i \in a..j : IsSpace(line[i])})
    IN  IF sp = {} THEN <<line>>
        ELSE <<SubSeq(line, 1, a - 1), SubSeq(line, z + 1, Len(line))>>

\* the cells of one line, missing columns filled with ""
LineCells(line) ==
    LET parts == SplitFirstSpace(line)
        items == [k \in 1..Len(parts) |-> StrStrip(parts[k])]
    IN  IF Len(items) < 2 THEN items \o <<<<>>>> ELSE items

\* the rows load_from_file appends for the lines read
RECURSIVE LoadLines(_)
LoadLines(lines) ==
    IF lines = <<>> THEN <<>>
    ELSE LET line == StrStrip(Head(lines))
         IN  (IF line # <<>> THEN <<LineCells(line)>> ELSE <<>>) \o LoadLines(Tail(lines))

\* the table emptied before the file is read
RowsClearedFirst(rs) == <<>>

\* the table when open() or readlines() raises: load_from_file is left
\* before self.model.removeRows
RowsOnReadError(rs) == rs

\* `if not text: return` passed: the clipboard text goes to the parser
ParsesText(clip) == clip # <<>>

\* self.model.insertRow(at_position, new_row) with empty cells, at_position
\* counted from 0
InsertRow(rs, at) ==
    SubSeq(rs, 1, at) \o << <<<<>>, <<>>>> >> \o SubSeq(rs, at + 1, Len(rs))

\* the row number left as it is after an entry is inserted
SameInsertRow(current_rows) == current_rows

\* current_rows += 1
NextInsertRow(current_rows) == current_rows + 1

\* for time_str, title in chapters: a row is inserted at current_rows and
\* filled with the entry
RECURSIVE PasteFrom(_, _, _)
PasteFrom(rs, entries, current_rows) ==
    IF entries = <<>> THEN rs
    ELSE PasteFrom(SubSeq(rs, 1, current_rows) \o <<Head(entries)>>
                   \o SubSeq(rs, current_rows + 1, Len(rs)),
                   Tail(entries), NextInsertRow(current_rows))

\* the table after the entries are pasted, current_rows starting at
\* self.model.rowCount()
PasteRows(rs, entries) == PasteFrom(rs, entries, Len(rs))

----------------------------------------------------------------------------
(* What the handlers are run on: the clipboard texts, the files the user   *)
(* can pick in the dialog, the selections the user can make.               *)

ClipIntro ==
    <<"0", ":", "0", "0", ":", "0", "1", ".", "0", "0", "1", " ">> \o Intro

ClipHours ==
    <<"1", "0", ":", "0", "0", ":", "0", "0", " ", "T", "e", "n", "\n",
      "9", ":", "0", "0", ":", "0", "0", " ", "N", "i", "n", "e", " ", " ", "x">>

ClipNoTime == <<"n", "o", "n", "e">>

ClipTies ==
    <<"2", ":", "0", "0", " ", "B", "\n", "1", ":", "0", "0", " ", "A", "\n",
      "2", ":", "0", "0", " ", "C">>

Clipboards == {<<>>, ClipIntro, ClipHours, ClipNoTime, ClipTies}

\* the file save_to_file writes
ChapterFile == "movie.txt"

NotesText ==
    <<"1", ":", "3", "0", " ", "S", "h", "o", "r", "t", "\n", "\n", " ",
      "0", ":", "0", "0", ":", "0", "8", ".", "0", "0", "1", " ", "\t", " ",
      "M", "i", "d", " ", " ", "\n">>

\* the other files: a text file, a file that is not UTF-8, a path that
\* cannot be opened
OtherFiles ==
    [p \in {"notes.txt", "movie.mp4", "gone.txt"} |->
        IF p = "notes.txt" THEN [kind |-> "text", data |-> NotesText]
        ELSE IF p = "movie.mp4" THEN [kind |-> "binary"]
        ELSE NoFile]

Paths == {ChapterFile} \cup DOMAIN OtherFiles

\* what the user types into the title cell of a row: whitespace inside, or
\* in front
EditedTitles == {<<"a", " ", "\t", "b">>, <<" ", "a">>}

\* selectedIndexes() of a table of n rows: no, one or two selected cells,
\* each given by its row, in the order the view lists them; two cells may
\* lie in one row
Selections(n) ==
    {<<>>} \cup {<<i>> : i \in 1..n} \cup ((1..n) \X (1..n))

----------------------------------------------------------------------------
(* The state machine of the table: the handlers run one after another,     *)
(* from the empty table of the constructor.                                *)

InitTable ==
    /\ pc = "ready"
    /\ time_str = <<>>
    /\ ParserIdle
    /\ TimeIdle
    /\ TableIdle
    /\ OtherIdle

\* a handler starts: what the properties compare its result with
Started(handler) ==
    /\ calls < MaxCalls
    /\ calls' = calls + 1
    /\ pc' = handler
    /\ rows_before' = rows
    /\ position_before' = player_position
    /\ UNCHANGED <<time_str, normalized, timeVars>>

\* the handler does not call the parser
NoParse ==
    /\ text' = <<>>
    /\ mode' = "none"
    /\ chapters' = <<>>
    /\ raised' = FALSE
    /\ tokens' = <<>>

\* the user selects cells of the table
Select ==
    /\ \E s \in Selections(Len(rows)) : selected' = s
    /\ Started("select")
    /\ NoParse
    /\ load_error' = "none"
    /\ UNCHANGED <<rows, player_position, file, file_path, saved_rows, otherVars>>

\* the user edits the title cell of a row in the view (the model's items
\* are editable)
edit_title ==
    /\ \E r \in 1..Len(rows), title \in EditedTitles :
          rows' = [rows EXCEPT ![r] = <<rows[r][1], title>>]
    /\ Started("edit_title")
    /\ NoParse
    /\ load_error' = "none"
    /\ UNCHANGED <<selected, player_position, file, file_path, saved_rows, otherVars>>

\* add_row(): an empty row after the last selected row, or at the end
add_row ==
    /\ Len(rows) < MaxRows
    /\ Started("add_row")
    /\ LET at_position == IF selected # <<>>
                          THEN MaxOf({selected[i] : i \in 1..Len(selected)})
                          ELSE Len(rows)
       IN  rows' = InsertRow(rows, at_position)
    /\ NoParse
    /\ load_error' = "none"
    /\ UNCHANGED <<selected, player_position, file, file_path, saved_rows, otherVars>>

\* self._parse_youtube_chapters(text) for each of the clipboard texts
ParsedClipboards ==
    [clip \in Clipboards |->
        [result |-> ParseYoutubeChapters(clip),
         mode   |-> IF UsesSeparatorMode(clip) THEN "separator" ELSE "line",
         tokens |-> ScannedTokens(SplitLines(clip))]]

\* paste_youtube_chapters(): the clipboard is empty, or its text is parsed
\* and the entries returned are appended as rows
paste_youtube_chapters ==
    \E clip \in Clipboards :
        LET call == ParsedClipboards[clip]
            new_rows == IF ~ParsesText(clip) \/ call.result.raised THEN <<>>
                        ELSE call.result.chapters
        IN  /\ Len(rows) + Len(new_rows) <= MaxRows
            /\ Started("paste_youtube_chapters")
            /\ text' = clip
            /\ IF ParsesText(clip)
               THEN /\ mode' = call.mode
                    /\ chapters' = call.result.chapters
                    /\ raised' = call.result.raised
                    /\ tokens' = call.tokens
               ELSE /\ mode' = "none"
                    /\ chapters' = <<>>
                    /\ raised' = FALSE
                    /\ tokens' = <<>>
            /\ rows' = PasteRows(rows, new_rows)
            /\ load_error' = "none"
            /\ UNCHANGED <<selected, player_position, file, file_path, saved_rows, otherVars>>

\* jump_to_time(): the player is set to the selected time, if there is one
jump_to_time ==
    /\ Started("jump_to_time")
    /\ LET time_position == get_selected_time
       IN  IF time_position # None
           THEN player_position' = to_milliseconds(time_position)
           ELSE player_position' = player_position
    /\ NoParse
    /\ load_error' = "none"
    /\ UNCHANGED <<rows, selected, file, file_path, saved_rows, otherVars>>

\* sort_by_time(): the model is emptied and rebuilt from the sorted rows
sort_by_time ==
    /\ Started("sort_by_time")
    /\ rows' = SortedByTime(rows)
    /\ selected' = <<>>
    /\ NoParse
    /\ load_error' = "none"
    /\ UNCHANGED <<player_position, file, file_path, saved_rows, otherVars>>

\* save_to_file(file_path): one line per row
save_to_file ==
    /\ Started("save_to_file")
    /\ file' = [kind |-> "text", data |-> SaveText(rows)]
    /\ file_path' = ChapterFile
    /\ saved_rows' = [rows |-> rows]
    /\ NoParse
    /\ load_error' = "none"
    /\ UNCHANGED <<rows, selected, player_position, otherVars>>

\* the file at a path
FileAt(path) == IF path = ChapterFile THEN file ELSE OtherFiles[path]

\* load_chapter_file() with a file that is read: the table is emptied and
\* filled from the lines
load_chapter_file ==
    \E path \in Paths :
        /\ FileAt(path).kind = "text"
        /\ \E loaded \in {LoadLines(ReadLines(FileAt(path).data))} :
              /\ Len(loaded) <= MaxRows
              /\ rows' = loaded
        /\ Started("load_chapter_file")
        /\ file_path' = path
        /\ selected' = <<>>
        /\ load_error' = "none"
        /\ NoParse
        /\ UNCHANGED <<player_position, file, saved_rows, otherVars>>

\* load_chapter_file() with a file that cannot be opened or is not UTF-8:
\* load_from_file raises, the handler reports the error
load_chapter_file_error ==
    \E path \in Paths :
        /\ FileAt(path).kind # "text"
        /\ Started("load_chapter_file")
        /\ file_path' = path
        /\ load_error' = IF FileAt(path).kind = "binary" THEN "UnicodeDecodeError"
                         ELSE "OSError"
        /\ rows' = RowsOnReadError(rows)
        /\ NoParse
        /\ UNCHANGED <<selected, player_position, file, saved_rows, otherVars>>

NextTable ==
    \/ Select
    \/ edit_title
    \/ add_row
    \/ paste_youtube_chapters
    \/ jump_to_time
    \/ sort_by_time
    \/ save_to_file
    \/ load_chapter_file
    \/ load_chapter_file_error

SpecTable == InitTable /\ [][NextTable]_vars

----------------------------------------------------------------------------
(* What the properties of the table handlers are stated with.              *)

\* the text is a canonical H:MM:SS.mmm, the hours in one or two digits
CanonicalTime(s) ==
    \E h \in 1..2 :
        /\ Len(s) = Len(StringPattern(h, 3))
        /\ MatchesAt(s, 1, StringPattern(h, 3))

\* H*3600000 + MM*60000 + SS*1000 + mmm of a canonical H:MM:SS.mmm
ExactMs(s) ==
    LET fields == StrSplit(s, ":")
        secs   == StrSplit(fields[3], ".")
    IN  IntOf(fields[1]) * 3600000 + IntOf(fields[2]) * 60000
        + IntOf(secs[1]) * 1000 + IntOf(secs[2])

\* the time cell of the first selected row
SelectedCell == rows[selected[1]][1]

\* the lines of the chapter file, without the whitespace around them
FileLines ==
    LET lines == ReadLines(file.data)
    IN  [i \in 1..Len(lines) |-> StrStrip(lines[i])]

\* time is everything before the first whitespace run of the line and title
\* everything after it (nothing, if the line has no whitespace)
CutAtFirstRun(line, time, title) ==
    \/ /\ \A i \in 1..Len(line) : ~IsSpace(line[i])
       /\ time = line
       /\ title = <<>>
    \/ \E a \in 1..Len(line), z \in 1..Len(line) :
          /\ a <= z
          /\ \A i \in 1..(a - 1) : ~IsSpace(line[i])
          /\ \A i \in a..z : IsSpace(line[i])
          /\ z < Len(line) => ~IsSpace(line[z + 1])
          /\ time = SubSeq(line, 1, a - 1)
          /\ title = SubSeq(line, z + 1, Len(line))

(* C17 *)

\* C17: when the time cell of the first selected row is a string H:MM:SS.mmm
\* that from_string accepts, jump_to_time sets the player position to
\* exactly H*3600000 + MM*60000 + SS*1000 + mmm; when nothing is selected or
\* the cell does not parse, the player position is left as it was.
C17_JumpExact ==
    pc = "jump_to_time" =>
        /\ (selected # <<>> /\ CanonicalTime(SelectedCell)) =>
              player_position = ExactMs(SelectedCell)
        /\ (selected = <<>> \/ SelectedCell = <<>> \/ from_string(SelectedCell) = None) =>
              player_position = position_before

(* C18 *)

\* C18: after sort_by_time on a table whose time cells are canonical
\* H:MM:SS.mmm strings (hours unpadded, possibly 10 or more) the rows are in
\* non-decreasing order of the time they denote in milliseconds.
C18_SortedByRealTime ==
    (pc = "sort_by_time" /\ \A i \in 1..Len(rows) : CanonicalTime(rows[i][1])) =>
        \A i \in 1..Len(rows), j \in 1..Len(rows) :
            i < j => ExactMs(rows[i][1]) <= ExactMs(rows[j][1])

(* C19 *)

\* the rows have a time cell from_string accepts and a title whose
\* whitespace, if any, is inside it
TimedRows(rs) ==
    \A i \in 1..Len(rs) :
        /\ from_string(rs[i][1]) # None
        /\ rs[i][2] = StrStrip(rs[i][2])

\* C19: for a table in which every row has a time cell from_string accepts
\* and a title that may contain whitespace inside, save_to_file followed by
\* load_from_file of the same file gives a table with the same rows in the
\* same order, the time being everything before the first whitespace run of
\* the line and the title everything after it.
C19_FileRoundTrip ==
    (/\ pc = "load_chapter_file"
     /\ load_error = "none"
     /\ file_path = ChapterFile
     /\ TimedRows(saved_rows.rows)) =>
        /\ rows = saved_rows.rows
        /\ Len(FileLines) = Len(rows)
        /\ \A i \in 1..Len(rows) : CutAtFirstRun(FileLines[i], rows[i][1], rows[i][2])

\* a table of two rows, one with whitespace inside its title, has been saved,
\* emptied or changed, and loaded again
C19_Witness ==
    /\ pc = "load_chapter_file"
    /\ file_path = ChapterFile
    /\ rows_before # rows
    /\ Len(rows) = 2
    /\ TimedRows(saved_rows.rows)
    /\ \E i \in 1..Len(rows) : \E k \in 1..Len(rows[i][2]) : IsSpace(rows[i][2][k])
    /\ rows = saved_rows.rows

(* C20 *)

\* C20: if reading the chapter file fails (it cannot be opened, or is not
\* UTF-8) load_from_file signals the failure to its caller, the parser is not
\* invoked and the table holds exactly the rows it held before the call; if
\* the clipboard yields no text, paste returns without invoking the parser
\* and without changing the table.
C20_ReadFailureInert ==
    /\ (pc = "load_chapter_file" /\ FileAt(file_path).kind # "text") =>
          /\ load_error \in {"OSError", "UnicodeDecodeError"}
          /\ mode = "none"
          /\ rows = rows_before
    /\ (pc = "paste_youtube_chapters" /\ text = <<>>) =>
          /\ mode = "none"
          /\ rows = rows_before

\* a file that is not UTF-8 was given to load_chapter_file while the table
\* held rows
C20_Witness ==
    /\ pc = "load_chapter_file"
    /\ load_error = "UnicodeDecodeError"
    /\ rows # <<>>

----------------------------------------------------------------------------
(* The handlers of the main window that the table model above leaves out:  *)
(* a direct call of the parser, delete_selected_rows, initialize_video and *)
(* save_chapter_file.                                                      *)

\* sorted(S) of a set of row numbers
RECURSIVE SortedAscending(_)
SortedAscending(S) ==
    IF S = {} THEN <<>>
    ELSE <<MinOf(S)>> \o SortedAscending(S \ {MinOf(S)})

\* sorted(S, reverse=True) of a set of row numbers
RECURSIVE SortedReverse(_)
SortedReverse(S) ==
    IF S = {} THEN <<>>
    ELSE <<MaxOf(S)>> \o SortedReverse(S \ {MaxOf(S)})

\* the rows removed lowest first
RowsToDeleteAscending(sel) == SortedAscending({sel[i] - 1 : i \in 1..Len(sel)})

\* rows_to_delete: the rows of the selected cells, counted from 0, each
\* once, highest first
RowsToDelete(sel) == SortedReverse({sel[i] - 1 : i \in 1..Len(sel)})

\* self.model.removeRow(row), row counted from 0; a row the model does not
\* have is not removed
RemoveRow(rs, row) ==
    IF row + 1 \in 1..Len(rs)
    THEN SubSeq(rs, 1, row) \o SubSeq(rs, row + 2, Len(rs))
    ELSE rs

\* for row in rows_to_delete: self.model.removeRow(row)
RECURSIVE RemoveRows(_, _)
RemoveRows(rs, rows_to_delete) ==
    IF rows_to_delete = <<>> THEN rs
    ELSE RemoveRows(RemoveRow(rs, Head(rows_to_delete)), Tail(rows_to_delete))

\* delete_selected_rows(): the rows of the selected cells are removed; the
\* view is left without a selection
delete_selected_rows ==
    /\ Started("delete_selected_rows")
    /\ IF selected = <<>>
       THEN /\ deleted_rows' = <<>>
            /\ rows' = rows
       ELSE /\ deleted_rows' = RowsToDelete(selected)
            /\ rows' = RemoveRows(rows, RowsToDelete(selected))
    /\ selected' = <<>>
    /\ NoParse
    /\ load_error' = "none"
    /\ UNCHANGED <<player_position, file, file_path, saved_rows>>
    /\ UNCHANGED <<file_name, reply, parsed, file_before, videoVars, utilVars>>

\* the texts the parser is called on by itself: one with entries and one
\* without
DirectTexts == {ClipIntro, ClipNoTime}

\* self._parse_youtube_chapters(text) called by itself
parse_youtube_chapters ==
    \E clip \in DirectTexts :
        LET call == ParsedClipboards[clip]
        IN  /\ Started("_parse_youtube_chapters")
            /\ text' = clip
            /\ mode' = call.mode
            /\ chapters' = call.result.chapters
            /\ raised' = call.result.raised
            /\ tokens' = call.tokens
            /\ parsed' = Append(parsed, [text |-> clip,
                                          chapters |-> call.result.chapters,
                                          rows |-> rows])
            /\ load_error' = "none"
            /\ UNCHANGED <<rows, selected, player_position, file, file_path, saved_rows>>
            /\ UNCHANGED <<file_name, reply, deleted_rows, file_before, videoVars, utilVars>>

\* os.path.splitext(path)[0]: the path up to its last dot, if that dot lies
\* in the last component and a character other than a dot precedes it there
SplitExtRoot(path) ==
    LET seps == {i \in 1..Len(path) : path[i] = "/"}
        dots == {i \in 1..Len(path) : path[i] = "."}
        sep  == IF seps = {} THEN 0 ELSE MaxOf(seps)
        dot  == IF dots = {} THEN 0 ELSE MaxOf(dots)
    IN  IF dot > sep /\ \E i \in (sep + 1)..(dot - 1) : path[i] # "."
        THEN SubSeq(path, 1, dot - 1)
        ELSE path

\* save_file_name = f"{base_name}.txt"
SaveFileName(path) == SplitExtRoot(path) \o <<".", "t", "x", "t">>

\* the name of the file ChapterFile
ChapterFileName == <<"m", "o", "v", "i", "e", ".", "t", "x", "t">>

\* the media files on disk, and one that is not there
MovieMp4 == <<"m", "o", "v", "i", "e", ".", "m", "p", "4">>

DotMovie == <<".", "/", "m", "o", "v", "i", "e">>

GoneMp4 == <<"g", "o", "n", "e", ".", "m", "p", "4">>

ExistingMedia == {MovieMp4, DotMovie}

MediaPaths == ExistingMedia \cup {GoneMp4}

\* os.path.exists(path)
Exists(path) ==
    IF path = ChapterFileName \/ path = <<".", "/">> \o ChapterFileName
    THEN file.kind # "absent"
    ELSE path \in ExistingMedia

\* the file is written whatever the answer
OverwritesAlways(answer) == TRUE

\* `if reply == QMessageBox.No: return` passed
Overwrites(answer) == answer # "No"

\* cap.get(cv2.CAP_PROP_FPS) of a file OpenCV opens: 0.0 when the file has
\* no frame rate to report, 30000/1001 otherwise
CapFps == {FloatOfInt(0), IntTrueDiv(30000, 1001)}

\* VideoController.get_frame_rate(video_path): what OpenCV reports, or 25.0
\* when it cannot open the file
DetectedFrameRates == CapFps \cup {DefaultFrameRate}

\* initialize_video(file_path): a file that exists becomes the media of the
\* player, its frame rate the frame rate of the controller
initialize_video ==
    \E path \in MediaPaths :
        /\ Started("initialize_video")
        /\ IF Exists(path)
           THEN /\ file_name' = [path |-> path]
                /\ \E rate \in DetectedFrameRates : frame_rate' = rate
                /\ player_position' = 0
           ELSE UNCHANGED <<file_name, frame_rate, player_position>>
        /\ NoParse
        /\ load_error' = "none"
        /\ UNCHANGED <<rows, selected, file, file_path, saved_rows>>
        /\ UNCHANGED <<reply, deleted_rows, parsed, file_before, seek_error, returned, offset, utilVars>>

\* save_chapter_file(): nothing without a media file; a chapter file that
\* exists is written only if the user does not answer No
save_chapter_file ==
    /\ Started("save_chapter_file")
    /\ file_before' = file
    /\ \E answer \in {"Yes", "No"} :
          LET asked == file_name # None /\ Exists(SaveFileName(file_name.path))
              writes == file_name # None /\ (asked => Overwrites(answer))
          IN  /\ reply' = IF asked THEN answer ELSE "none"
              /\ IF writes
                 THEN /\ file' = [kind |-> "text", data |-> SaveText(rows)]
                      /\ file_path' = ChapterFile
                      /\ saved_rows' = [rows |-> rows]
                 ELSE UNCHANGED <<file, file_path, saved_rows>>
    /\ NoParse
    /\ load_error' = "none"
    /\ UNCHANGED <<rows, selected, player_position>>
    /\ UNCHANGED <<file_name, deleted_rows, parsed, videoVars, utilVars>>

\* the main window after construction, with or without a chapter file left
\* on disk by an earlier session
InitApp ==
    /\ pc = "ready"
    /\ time_str = <<>>
    /\ ParserIdle
    /\ TimeIdle
    /\ rows = <<>>
    /\ selected = <<>>
    /\ player_position = 0
    /\ file \in {NoFile, [kind |-> "text", data |-> NotesText]}
    /\ file_path = ""
    /\ load_error = "none"
    /\ calls = 0
    /\ rows_before = <<>>
    /\ position_before = 0
    /\ saved_rows = None
    /\ OtherIdle

\* the handlers that edit the table, and the parser called by itself
NextEdit ==
    \/ Select
    \/ edit_title
    \/ add_row
    \/ paste_youtube_chapters
    \/ parse_youtube_chapters
    \/ delete_selected_rows
    \/ sort_by_time
    \/ load_chapter_file

SpecEdit == InitTable /\ [][NextEdit]_vars

\* opening a media file, filling the table and saving it
NextSave ==
    \/ initialize_video
    \/ add_row
    \/ edit_title
    \/ paste_youtube_chapters
    \/ load_chapter_file
    \/ save_chapter_file

SpecSave == InitApp /\ [][NextSave]_vars

----------------------------------------------------------------------------
(* What the properties of the main window's handlers are stated with.      *)

(* C21 *)

\* the last parser result is the result every earlier direct call on the
\* same text returned
SameResultAsBefore ==
    \A k \in 1..Len(parsed) : parsed[k].text = text => parsed[k].chapters = chapters

C25_PasteAppends ==
    /\ [](pc = "paste_youtube_chapters" =>
            /\ Len(rows) = Len(rows_before) + Len(chapters)
            /\ SubSeq(rows, 1, Len(rows_before)) = rows_before
            /\ \A k \in 1..Len(chapters) : rows[Len(rows_before) + k] = chapters[k])
    /\ [][pc' = "paste_youtube_chapters" =>
            UNCHANGED <<selected, player_position, file, file_path, file_name>>]_vars

\* two entries were pasted into a table that held rows, one of them selected
C25_Witness ==
    /\ pc = "paste_youtube_chapters"
    /\ rows_before # <<>>
    /\ selected # <<>>
    /\ Len(chapters) = 2
    /\ rows = rows_before \o chapters

(* C26 *)

\* the rows of rs whose number is not in gone, in their order
RECURSIVE Keeping(_, _, _)
Keeping(rs, gone, k) ==
    IF k > Len(rs) THEN <<>>
    ELSE (IF k \in gone THEN <<>> ELSE <<rs[k]>>) \o Keeping(rs, gone, k + 1)

\* C26: delete_selected_rows removes exactly the rows that have at least one
\* selected cell: afterwards the table is the original row sequence without
\* those rows, the remaining rows in their original order; the list returned
\* holds the removed row numbers (counted from 0), each once, in descending
\* order; with an empty selection the table is unchanged and the list empty.
C26_DeletesSelectedRows ==
    [][pc' = "delete_selected_rows" =>
          LET gone == {selected[i] : i \in 1..Len(selected)}
          IN  /\ rows' = Keeping(rows, gone, 1)
              /\ {deleted_rows'[i] + 1 : i \in 1..Len(deleted_rows')} = gone
              /\ Len(deleted_rows') = Cardinality(gone)
              /\ \A i \in 1..(Len(deleted_rows') - 1) : deleted_rows'[i] > deleted_rows'[i + 1]
              /\ selected = <<>> => (rows' = rows /\ deleted_rows' = <<>>)]_vars

\* the first and the last row of a table of three were deleted
C26_Witness ==
    /\ pc = "delete_selected_rows"
    /\ Len(rows_before) = 3
    /\ Len(deleted_rows) = 2
    /\ Len(rows) = 1
    /\ rows = <<rows_before[2]>>

(* C27 *)

\* C27: save never overwrites silently.  save_chapter_file writes nothing
\* while no media file has been opened; when the chapter file it targets (the
\* media path with its extension replaced by .txt) already exists, it is
\* written only after the user answers Yes to the overwrite question;
\* answering No leaves the file and the table unchanged.
C27_NoSilentOverwrite ==
    pc = "save_chapter_file" =>
        /\ file_name = None => (file = file_before /\ reply = "none")
        /\ (file_before.kind # "absent" /\ file # file_before) => reply = "Yes"
        /\ (file_name # None /\ file_before.kind # "absent") => reply \in {"Yes", "No"}
        /\ reply = "No" => (file = file_before /\ rows = rows_before)

\* a chapter file that existed was written over with other contents after
\* the user answered Yes
C27_Witness ==
    /\ pc = "save_chapter_file"
    /\ file_before.kind = "text"
    /\ file # file_before
    /\ reply = "Yes"
    /\ rows # <<>>

(* C28 *)

\* C28: sort_by_time is a stable permutation of the table: after it the
\* multiset of (time, title) rows is the multiset before it (no row lost,
\* duplicated or altered, rows with empty cells included), and rows with
\* equal time strings keep their relative order.
C28_StablePermutation ==
    pc = "sort_by_time" =>
        /\ Len(rows) = Len(rows_before)
        /\ \E f \in Permutations(1..Len(rows_before)) :
              /\ \A k \in 1..Len(rows) : rows[k] = rows_before[f[k]]
              /\ \A i \in 1..Len(rows), j \in 1..Len(rows) :
                    (i < j /\ rows[i][1] = rows[j][1]) => f[i] < f[j]

\* the sort moved a row of a table in which two rows with different titles
\* have the same time
C28_Witness ==
    /\ pc = "sort_by_time"
    /\ rows # rows_before
    /\ \E i \in 1..Len(rows), j \in 1..Len(rows) :
          i < j /\ rows[i][1] = rows[j][1] /\ rows[i][2] # rows[j][2]

----------------------------------------------------------------------------
(* PlatformUtils (movie_viewer/utils/platform_utils.py), the test of the   *)
(* M4A support (test_m4a_support.py) and ThemeDetector                     *)
(* (movie_viewer/utils/theme_detector.py).                                 *)

\* the callbacks one behaviour registers
MaxCallbacks == 2

LowerLetters ==
    <<"a", "b", "c", "d", "e", "f", "g", "h", "i", "j", "k", "l", "m",
      "n", "o", "p", "q", "r", "s", "t", "u", "v", "w", "x", "y", "z">>

UpperLetters ==
    <<"A", "B", "C", "D", "E", "F", "G", "H", "I", "J", "K", "L", "M",
      "N", "O", "P", "Q", "R", "S", "T", "U", "V", "W", "X", "Y", "Z">>

\* str.lower() and str.upper(), letter by letter
StrLower(s) ==
    [i \in 1..Len(s) |->
        IF \E k \in 1..Len(UpperLetters) : UpperLetters[k] = s[i]
        THEN LowerLetters[CHOOSE k \in 1..Len(UpperLetters) : UpperLetters[k] = s[i]]
        ELSE s[i]]

StrUpper(s) ==
    [i \in 1..Len(s) |->
        IF \E k \in 1..Len(LowerLetters) : LowerLetters[k] = s[i]
        THEN UpperLetters[CHOOSE k \in 1..Len(LowerLetters) : LowerLetters[k] = s[i]]
        ELSE s[i]]

\* sub in s
StrContains(sub, s) ==
    \E p \in 1..(Len(s) - Len(sub) + 1) : SubSeq(s, p, p + Len(sub) - 1) = sub

\* what platform.system() returns on the machines the program runs on, and
\* on one it does not know
Systems ==
    { <<"L", "i", "n", "u", "x">>, <<"D", "a", "r", "w", "i", "n">>,
      <<"W", "i", "n", "d", "o", "w", "s">>, <<"F", "r", "e", "e", "B", "S", "D">> }

\* get_platform(): 'windows', 'macos', 'linux' or 'unknown'
get_platform(sys) ==
    LET name == StrLower(sys)
    IN  IF name = <<"d", "a", "r", "w", "i", "n">> THEN "macos"
        ELSE IF name = <<"w", "i", "n", "d", "o", "w", "s">> THEN "windows"
        ELSE IF name = <<"l", "i", "n", "u", "x">> THEN "linux"
        ELSE "unknown"

\* the extensions of every platform
BaseExtensions ==
    <<
       <<"*", ".", "m", "p", "4">>, <<"*", ".", "m", "4", "v">>,
       <<"*", ".", "a", "v", "i">>, <<"*", ".", "m", "k", "v">>,
       <<"*", ".", "m", "o", "v">>, <<"*", ".", "t", "s">>,
       <<"*", ".", "m", "2", "t", "s">>, <<"*", ".", "m", "p", "3">>,
       <<"*", ".", "w", "e", "b", "m">>, <<"*", ".", "f", "l", "v">>,
       <<"*", ".", "o", "g", "v">>, <<"*", ".", "3", "g", "p">>
    >>

\* get_video_extensions(): the common extensions, those of the platform, and
\* on every platform but Windows the upper-case forms of all of them
get_video_extensions(sys) ==
    LET platform == get_platform(sys)
        own == IF platform = "windows"
               THEN << <<"*", ".", "w", "m", "v">>, <<"*", ".", "a", "s", "f">> >>
               ELSE IF platform = "macos"
               THEN << <<"*", ".", "m", "4", "v">> >>
               ELSE <<>>
        exts == BaseExtensions \o own
    IN  IF platform # "windows"
        THEN exts \o [i \in 1..Len(exts) |-> StrUpper(exts[i])]
        ELSE exts

\* any('*.m4a' in ext.lower() for ext in extensions) of test_file_extensions
M4aFound(exts) ==
    \E i \in 1..Len(exts) : StrContains(<<"*", ".", "m", "4", "a">>, StrLower(exts[i]))

\* is_dark_mode(): the setting of the desktop on macOS, Windows and Linux,
\* False on any other system
is_dark_mode ==
    IF system \in { <<"D", "a", "r", "w", "i", "n">>,
                    <<"W", "i", "n", "d", "o", "w", "s">>,
                    <<"L", "i", "n", "u", "x">> }
    THEN dark_setting
    ELSE FALSE

\* for callback in cls._theme_changed_callbacks: callback(current_dark_mode)
CallbacksRun(current_dark_mode) ==
    [k \in 1..Len(callbacks) |->
        [callback |-> callbacks[k], dark |-> current_dark_mode]]

\* the functions the program may register
Callbacks == {"apply_theme", "log_theme"}

\* the state of the parser, TimePosition, the table and the main window,
\* none of which the utilities touch
restVars == <<text, mode, chapters, raised, tokens, time_str, normalized,
              timeVars, tableVars, appVars, videoVars>>

InitUtils ==
    /\ pc = "ready"
    /\ time_str = <<>>
    /\ ParserIdle
    /\ TimeIdle
    /\ TableIdle
    /\ file_name = None
    /\ reply = "none"
    /\ deleted_rows = <<>>
    /\ parsed = <<>>
    /\ file_before = NoFile
    /\ frame_rate = DefaultFrameRate
    /\ seek_error = "none"
    /\ returned = -1
    /\ offset = 0
    /\ system \in Systems
    /\ dark_setting \in BOOLEAN
    /\ callbacks = <<>>
    /\ invoked = <<>>
    /\ detected = None
    /\ last_dark = None
    /\ extensions = <<>>
    /\ test_error = "none"

\* the user switches the desktop between light and dark
ChangeTheme ==
    /\ dark_setting' = ~dark_setting
    /\ pc' = "ChangeTheme"
    /\ UNCHANGED <<system, callbacks, invoked, detected, last_dark, extensions, test_error>>
    /\ UNCHANGED restVars

\* register_theme_change_callback(callback)
register_theme_change_callback ==
    /\ Len(callbacks) < MaxCallbacks
    /\ \E callback \in Callbacks : callbacks' = Append(callbacks, callback)
    /\ pc' = "register_theme_change_callback"
    /\ UNCHANGED <<system, dark_setting, invoked, detected, last_dark, extensions, test_error>>
    /\ UNCHANGED restVars

\* check_theme_change(): the theme is detected and every callback is called
\* with it
check_theme_change ==
    /\ detected' = [dark |-> is_dark_mode]
    /\ last_dark' = detected
    /\ invoked' = CallbacksRun(is_dark_mode)
    /\ pc' = "check_theme_change"
    /\ UNCHANGED <<system, dark_setting, callbacks, extensions, test_error>>
    /\ UNCHANGED restVars

\* PlatformUtils.get_video_extensions() called by the file dialog
CallGetVideoExtensions ==
    /\ extensions' = get_video_extensions(system)
    /\ test_error' = "none"
    /\ pc' = "get_video_extensions"
    /\ UNCHANGED <<system, dark_setting, callbacks, invoked, detected, last_dark>>
    /\ UNCHANGED restVars

\* test_file_extensions(): the video extensions are read and searched, then
\* PlatformUtils.get_audio_extensions, which the class does not define, is
\* looked up
test_file_extensions ==
    /\ extensions' = get_video_extensions(system)
    /\ test_error' = "AttributeError"
    /\ pc' = "test_file_extensions"
    /\ UNCHANGED <<system, dark_setting, callbacks, invoked, detected, last_dark>>
    /\ UNCHANGED restVars

NextUtils ==
    \/ ChangeTheme
    \/ register_theme_change_callback
    \/ check_theme_change
    \/ CallGetVideoExtensions
    \/ test_file_extensions

SpecUtils == InitUtils /\ [][NextUtils]_vars

(* C22 *)

\* C22: M4A is a supported extension: on every platform the list
\* get_video_extensions() returns has an entry that contains "*.m4a" in some
\* letter case, and test_file_extensions finds it there and in the
\* audio-extension list it reads.
C22_M4aSupported ==
    /\ pc = "get_video_extensions" => M4aFound(extensions)
    /\ pc = "test_file_extensions" => (M4aFound(extensions) /\ test_error = "none")

(* C23 *)

\* C23: check_theme_change runs the registered callbacks only if the theme
\* has changed: a check that detects the dark-mode value the check before it
\* detected invokes no callback.
C23_CallbacksOnlyOnChange ==
    (pc = "check_theme_change" /\ last_dark # None /\ last_dark.dark = detected.dark) =>
        invoked = <<>>

----------------------------------------------------------------------------
(* The parser's entries read by TimePosition.from_string, as jump_to_time  *)
(* reads the time cell of a pasted row.                                    *)

\* the fields time tokens are written with
JumpHours == { <<"0">>, <<"1">>, <<"1", "0">> }

JumpFirstFields == { <<"0">>, <<"5">>, <<"5", "9">>, <<"6", "0">>, <<"9", "9">> }

JumpFields == { <<"0", "0">>, <<"0", "1">>, <<"5", "9">>, <<"6", "0">>, <<"9", "9">> }

JumpFractions ==
    { <<>>, <<".", "0", "0", "1">>, <<".", "5", "0", "0">>, <<".", "9", "9", "9">> }

\* MM:SS, MM:SS.mmm, H:MM:SS and H:MM:SS.mmm tokens
JumpTokens ==
    {a \o <<":">> \o b \o f : a \in JumpFirstFields, b \in JumpFields, f \in JumpFractions}
    \cup {h \o <<":">> \o a \o <<":">> \o b \o f :
            h \in JumpHours, a \in JumpFields, b \in JumpFields, f \in JumpFractions}

\* a chapter list of one line with one token, and lists of one line with
\* two tokens
JumpTexts ==
    {t \o <<" ">> \o Intro : t \in JumpTokens}
    \cup {t \o <<" ">> \o Intro \o <<" ", "-", " ">> \o u \o <<" ">> \o Verse :
            t \in {T130, <<"6", "0", ":", "0", "0">>},
            u \in {T345, <<"1", ":", "0", "2", ":", "0", "3", ".", "0", "0", "1">>}}

InitJump ==
    /\ text \in JumpTexts
    /\ pc = "ready"
    /\ mode = "none"
    /\ chapters = <<>>
    /\ raised = FALSE
    /\ tokens = <<>>
    /\ time_str = <<>>
    /\ normalized = <<>>
    /\ TimeIdle
    /\ TableIdle
    /\ OtherIdle

\* TimePosition.from_string(time_str) on the time of an entry the parser
\* returned
ReadEntry ==
    /\ pc = "done"
    /\ \E k \in 1..Len(chapters) :
          /\ time_str' = chapters[k][1]
          /\ position' = from_string(chapters[k][1])
    /\ pc' = "read"
    /\ UNCHANGED <<text, mode, chapters, raised, tokens, normalized>>
    /\ UNCHANGED <<ms_arg, milliseconds, include_ms, formatted, reparsed>>
    /\ UNCHANGED <<tableVars, otherVars>>

NextJump == ParseSeparator \/ ParseLines \/ ReadEntry

SpecJump == InitJump /\ [][NextJump]_vars

\* the hours, minutes, seconds and milliseconds a token is written with: two
\* fields are minutes and seconds, three are hours, minutes and seconds
TokenFields(token) ==
    LET parts == StrSplit(token, ".")
        fields == StrSplit(parts[1], ":")
        n == Len(fields)
    IN  [hours   |-> IF n = 3 THEN IntOf(fields[1]) ELSE 0,
         minutes |-> IntOf(fields[n - 1]),
         seconds |-> IntOf(fields[n]),
         ms      |-> IF Len(parts) > 1 THEN IntOf(parts[2]) ELSE 0]

(* C24 *)

\* C24: every time string the parser emits is usable for jumping: it is
\* accepted by TimePosition.from_string and the value parsed denotes the
\* hours, minutes, seconds and milliseconds of the token it came from, with
\* minutes and seconds below 60.
C24_EntriesUsable ==
    pc = "read" =>
        /\ position # None
        /\ \E i \in 1..Len(tokens) :
              LET t == TokenFields(tokens[i])
              IN  /\ position.hours = t.hours
                  /\ position.minutes = t.minutes
                  /\ Millis(position.seconds) = t.seconds * 1000 + t.ms
        /\ position.minutes < 60
        /\ FloatLess(position.seconds, FloatOfInt(60))

----------------------------------------------------------------------------
(* VideoController (movie_viewer/core/video_controller.py): the frame rate *)
(* and the seeks of the buttons and shortcuts of the main window.          *)

\* bit i of a, bit 0 the lowest
BigBit(a, i) == (Limb(a, (i \div LimbBits) + 1) \div (2 ^ (i % LimbBits))) % 2

\* a with the bit b put below its lowest bit
BigPush(a, b) == IF b = 1 THEN BigAdd(BigShl(a, 1), <<1>>) ELSE BigShl(a, 1)

\* the bits i, i-1, ... low of n brought down one by one onto the remainder
\* s.r of the bits above them, s.q the quotient so far
RECURSIVE DivBits(_, _, _, _, _)
DivBits(n, d, i, low, s) ==
    IF i < low THEN s
    ELSE LET cur == BigPush(s.r, BigBit(n, i))
         IN  IF BigCmp(cur, d) >= 0
             THEN DivBits(n, d, i - 1, low, [q |-> BigPush(s.q, 1), r |-> BigSub(cur, d)])
             ELSE DivBits(n, d, i - 1, low, [q |-> BigPush(s.q, 0), r |-> cur])

\* the limbs j, j-1, ... 1 of n brought down bit by bit
RECURSIVE DivFrom(_, _, _, _)
DivFrom(n, d, j, s) ==
    IF j < 1 THEN s
    ELSE DivFrom(n, d, j - 1, DivBits(n, d, j * LimbBits - 1, (j - 1) * LimbBits, s))

\* the quotient and the remainder of n by d > 0
BigDivModBig(n, d) == DivFrom(n, d, Len(n), [q |-> <<>>, r |-> <<>>])

\* a / x of an int a >= 0 and a float x > 0: the quotient correctly rounded
IntDivFloat(a, x) ==
    LET k  == MantissaBits + 2 + BigBitLen(x.m)
        dm == BigDivModBig(BigShl(BigOfInt(a), k), x.m)
    IN  FloatRound(dm.q, 0 - k - x.e, dm.r # <<>>)

\* x == 0.0
FloatIsZero(x) == x.m = <<>>

\* the milliseconds in a second
MsPerSecond == 1000

\* int(1000 / self.frame_rate * frame_count): the product has the sign of
\* frame_count and int() drops its fraction
FrameMilliseconds(rate, frame_count) ==
    LET frame_duration_ms == IntDivFloat(MsPerSecond, rate)
        size == IF frame_count < 0 THEN 0 - frame_count ELSE frame_count
        whole == FloatInt(FloatMulInt(frame_duration_ms, size))
    IN  IF frame_count < 0 THEN 0 - whole ELSE whole

\* the position set without a lower limit
Unclamped(target) == target

\* max(0, current_position + milliseconds)
NewPosition(target) == IF target > 0 THEN target ELSE 0

\* the offsets of the seek buttons and of the one-minute shortcuts
SeekOffsets == {-60000, -10000, -1000, -300, 300, 1000, 10000, 60000}

\* the frame counts of the frame buttons
FrameCounts == {-1, 1}

\* the frame rates set_frame_rate is given
FrameRates == DetectedFrameRates \cup {FloatOfInt(60)}

\* the length of the media, and the positions playing or the slider brings
\* the player to
MediaDuration == 70000

PlayPositions == {0, 250, MediaDuration}

\* int(1000 / frame_rate * frame_count) for the frame rates and the frame
\* counts above
FrameSteps ==
    [rate \in {r \in FrameRates : ~FloatIsZero(r)}, frame_count \in FrameCounts |->
        FrameMilliseconds(rate, frame_count)]

\* the state the controller never touches
idleVars == <<text, mode, chapters, raised, tokens, time_str, normalized,
              timeVars, rows, selected, file, file_path, load_error,
              rows_before, saved_rows, appVars, utilVars>>

\* the player plays, or the user drags the slider
playback ==
    /\ calls < MaxCalls
    /\ calls' = calls + 1
    /\ pc' = "playback"
    /\ position_before' = player_position
    /\ \E p \in PlayPositions : player_position' = p
    /\ UNCHANGED <<frame_rate, seek_error, returned, offset>>
    /\ UNCHANGED idleVars

\* set_frame_rate(frame_rate)
set_frame_rate ==
    /\ calls < MaxCalls
    /\ calls' = calls + 1
    /\ pc' = "set_frame_rate"
    /\ position_before' = player_position
    /\ \E rate \in FrameRates : frame_rate' = rate
    /\ UNCHANGED <<player_position, seek_error, returned, offset>>
    /\ UNCHANGED idleVars

\* seek_by_milliseconds(milliseconds) of a button or a shortcut
seek_by_milliseconds ==
    /\ calls < MaxCalls
    /\ calls' = calls + 1
    /\ pc' = "seek_by_milliseconds"
    /\ position_before' = player_position
    /\ \E ms_offset \in SeekOffsets :
          /\ offset' = ms_offset
          /\ player_position' = NewPosition(player_position + ms_offset)
          /\ returned' = NewPosition(player_position + ms_offset)
    /\ seek_error' = "none"
    /\ UNCHANGED frame_rate
    /\ UNCHANGED idleVars

\* seek_by_frame(frame_count): the division raises ZeroDivisionError for a
\* frame rate of 0.0, otherwise seek_by_milliseconds is called with the
\* milliseconds of the frames
seek_by_frame ==
    /\ calls < MaxCalls
    /\ calls' = calls + 1
    /\ pc' = "seek_by_frame"
    /\ position_before' = player_position
    /\ \E frame_count \in FrameCounts :
          IF FloatIsZero(frame_rate)
          THEN /\ seek_error' = "ZeroDivisionError"
               /\ UNCHANGED <<player_position, returned, offset>>
          ELSE LET ms_offset == FrameSteps[frame_rate, frame_count]
               IN  /\ seek_error' = "none"
                   /\ offset' = ms_offset
                   /\ player_position' = NewPosition(player_position + ms_offset)
                   /\ returned' = NewPosition(player_position + ms_offset)
    /\ UNCHANGED frame_rate
    /\ UNCHANGED idleVars

NextVideo ==
    \/ initialize_video
    \/ set_frame_rate
    \/ playback
    \/ seek_by_milliseconds
    \/ seek_by_frame

SpecVideo == InitTable /\ [][NextVideo]_vars

(* C29 *)

\* C29: frame stepping cannot divide by zero: after any sequence of
\* initialize_video and set_frame_rate calls the frame rate the controller
\* holds is strictly positive, so seek_by_frame always completes and moves
\* the position by int(1000 / frame_rate * frame_count) milliseconds (not
\* below 0).
C29_FrameRatePositive ==
    /\ FloatLess(FloatOfInt(0), frame_rate)
    /\ pc = "seek_by_frame" =>
          /\ seek_error = "none"
          /\ \E frame_count \in FrameCounts :
                /\ offset = FrameSteps[frame_rate, frame_count]
                /\ player_position = NewPosition(position_before + offset)

(* C30 *)

\* C30: seeking never requests a negative position: for every position
\* p >= 0 and every offset d (the buttons' 0.3 s, 1 s and 10 s, the
\* shortcuts' 1 min, the frame steps; both directions, in any sequence) the
\* seek sets and returns max(0, p + d), which is never below 0 and is not
\* cut at the duration of the media.
C30_SeekNeverNegative ==
    /\ player_position >= 0
    /\ (pc \in {"seek_by_milliseconds", "seek_by_frame"} /\ seek_error = "none") =>
          /\ position_before + offset >= 0 => player_position = position_before + offset
          /\ position_before + offset < 0 => player_position = 0
          /\ returned = player_position

\* a backward seek from a position smaller than the step ended at 0, and a
\* forward seek ended beyond the end of the media
C30_Witness ==
    /\ pc \in {"seek_by_milliseconds", "seek_by_frame"}
    /\ seek_error = "none"
    /\ \/ position_before > 0 /\ position_before + offset < 0 /\ player_position = 0
       \/ player_position > MediaDuration

====
